---- MODULE Spec2Model ----
(***************************************************************************)
(* Synthetic evaluation harness of the robot "Misty": the world model,     *)
(* the action parser, the task evaluator, the simulated user and the turn  *)
(* loop of the simulation orchestrator (src/simulation).                   *)
(*                                                                         *)
(* Lengths are integers in millimetres (0.1 m = 100), angles are integer   *)
(* degrees.  The robot's orientation stays a multiple of 90 degrees, for   *)
(* which sin and cos are exact, so every path is axis-parallel and the     *)
(* square roots the code takes are taken of perfect squares or are only    *)
(* compared with integers.                                                 *)
(*                                                                         *)
(* A text (action description, spoken sentence, goal) is the sequence of   *)
(* its whitespace-separated tokens.  A token is a word or a numeral; the   *)
(* separator ", then " of a multi-step description is one token.  Python's *)
(* substring test `p in s` is decided on the characters of the tokens.     *)
(***************************************************************************)
EXTENDS Integers, Sequences, FiniteSets, TLC

VARIABLES
    task,                 \* the TaskScenario of the running episode
    robot_position,       \* WorldModel.robot_position, <<x, y>> in mm
    robot_orientation,    \* WorldModel.robot_orientation, degrees
    action_history,       \* WorldModel.action_history, sequence of texts
    visible,              \* the visible flag of each object, in scene order
    last_update,          \* what the last update_from_action call did
    pc,                   \* where the batch is: "batch", "loop", "final", "done", ...
    episode_num,          \* run_experiments: the episodes finished
    episodes,             \* all_results["episodes"]
    turn_num,             \* simulate_interaction's locals
    task_complete,
    collision_occurred,
    user_command,
    interaction_log,
    conversation_history, \* SimulatedUser.conversation_history
    actions_observed,     \* SimulatedUser.actions_observed
    calls,                \* the calls made in the running episode
    robot_history,        \* LLMLayer.conversation_history: the role of each message
    controller_class,     \* which MistyController runs: main.py's or model/'s
    processing_audio,     \* MistyController.processing_audio
    last_processed_file,  \* MistyController.last_processed_file
    handler,              \* where each running audio callback is
    events,               \* the audio events delivered so far
    executions,           \* the execute calls made on the ActionExecutor
    last_turn             \* what the last pass through the loop body did

-----------------------------------------------------------------------------
(* Tokens and numerals *)

\* a word token
W(s) == [k |-> "w", w |-> s, neg |-> FALSE, ip |-> 0, fp |-> <<>>]

\* a Python int as str() prints it: optional '-', the digits
PyInt(n) == [neg |-> (n < 0), ip |-> (IF n < 0 THEN -n ELSE n), fp |-> <<>>]

\* a Python float as str() prints it: optional '-', digits, '.', digits
PyFloat(neg, ip, fp) == [neg |-> neg, ip |-> ip, fp |-> fp]

\* the token a number prints as inside an f-string
N(num) == [k |-> "n", w |-> "", neg |-> num.neg, ip |-> num.ip, fp |-> num.fp]

IsNum(t) == t.k = "n"

Words(ws) == [i \in 1..Len(ws) |-> W(ws[i])]

\* string tables: begin
\* <<s, s.lower()>> for the words that change under str.lower()
LowerPairs ==
    {<<"Can", "can">>, <<"Counter", "counter">>, <<"Describe", "describe">>, <<"Desk", "desk">>,
     <<"Done.", "done.">>, <<"Find", "find">>, <<"Go", "go">>, <<"Going", "going">>,
     <<"I", "i">>, <<"I've", "i've">>, <<"Let", "let">>, <<"Misty", "misty">>,
     <<"Move", "move">>, <<"Moving", "moving">>, <<"Navigate", "navigate">>, <<"None", "none">>,
     <<"Should", "should">>, <<"Sorry,", "sorry,">>, <<"Stopping", "stopping">>, <<"Turning", "turning">>,
     <<"User:", "user:">>, <<"Which", "which">>, <<"Yes", "yes">>, <<"You", "you">>}

\* <<s, len(s)>>
LenPairs ==
    {<<"'", 1>>, <<"(adjusted", 9>>, <<"(the", 4>>, <<", then", 6>>, <<", then:", 7>>, <<"-", 1>>,
     <<"Can", 3>>, <<"Counter", 7>>, <<"Describe", 8>>, <<"Desk", 4>>, <<"Done.", 5>>, <<"Find", 4>>,
     <<"Go", 2>>, <<"Going", 5>>, <<"I", 1>>, <<"I've", 4>>, <<"Let", 3>>, <<"Misty", 5>>,
     <<"Move", 4>>, <<"Moving", 6>>, <<"Navigate", 8>>, <<"None", 4>>, <<"Should", 6>>, <<"Sorry,", 6>>,
     <<"Stopping", 8>>, <<"Turning", 7>>, <<"User:", 5>>, <<"Which", 5>>, <<"Yes", 3>>, <<"You", 3>>,
     <<"a", 1>>, <<"action:", 7>>, <<"ahead", 5>>, <<"an", 2>>, <<"analyze", 7>>, <<"and", 3>>,
     <<"any", 3>>, <<"are", 3>>, <<"around", 6>>, <<"asked", 5>>, <<"asked:", 6>>, <<"available", 9>>,
     <<"backward", 8>>, <<"bag", 3>>, <<"before", 6>>, <<"behind", 6>>, <<"blue", 4>>, <<"book", 4>>,
     <<"bottle", 6>>, <<"bowl", 4>>, <<"box", 3>>, <<"but", 3>>, <<"by", 2>>, <<"can", 3>>,
     <<"capture", 7>>, <<"center", 6>>, <<"chair", 5>>, <<"chairs", 6>>, <<"clarification", 13>>, <<"clarify?", 8>>,
     <<"coffee", 6>>, <<"command", 7>>, <<"completed", 9>>, <<"couldn't", 8>>, <<"count", 5>>, <<"counter", 7>>,
     <<"cup", 3>>, <<"degrees", 7>>, <<"describe", 8>>, <<"described", 9>>, <<"desk", 4>>, <<"didn't", 6>>,
     <<"distance", 8>>, <<"don't", 5>>, <<"done.", 5>>, <<"door", 4>>, <<"doorway", 7>>, <<"drop", 4>>,
     <<"edge", 4>>, <<"environment", 11>>, <<"executed", 8>>, <<"executed:", 9>>, <<"fall", 4>>, <<"find", 4>>,
     <<"for", 3>>, <<"forward", 7>>, <<"found", 5>>, <<"fruit", 5>>, <<"glasses", 7>>, <<"go", 2>>,
     <<"going", 5>>, <<"how", 3>>, <<"i", 1>>, <<"i've", 4>>, <<"if", 2>>, <<"image", 5>>,
     <<"images", 6>>, <<"in", 2>>, <<"inside", 6>>, <<"is", 2>>, <<"it", 2>>, <<"keys", 4>>,
     <<"kitchen", 7>>, <<"know", 4>>, <<"laptop", 6>>, <<"left", 4>>, <<"let", 3>>, <<"look", 4>>,
     <<"m", 1>>, <<"m)", 2>>, <<"m?", 2>>, <<"maker", 5>>, <<"many", 4>>, <<"me", 2>>,
     <<"meters", 6>>, <<"microwave", 9>>, <<"middle", 6>>, <<"misty", 5>>, <<"move", 4>>, <<"moved", 5>>,
     <<"moving", 6>>, <<"mug", 3>>, <<"my", 2>>, <<"navigate", 8>>, <<"navigated", 9>>, <<"need", 4>>,
     <<"none", 4>>, <<"not", 3>>, <<"object", 6>>, <<"off", 3>>, <<"office", 6>>, <<"on", 2>>,
     <<"one", 3>>, <<"one?", 4>>, <<"perform", 7>>, <<"plant", 5>>, <<"plugged", 7>>, <<"power", 5>>,
     <<"reached", 7>>, <<"red", 3>>, <<"report", 6>>, <<"respond:", 8>>, <<"right", 5>>, <<"said", 4>>,
     <<"said:", 5>>, <<"scan", 4>>, <<"scan,", 5>>, <<"see", 3>>, <<"sees", 4>>, <<"short", 5>>,
     <<"should", 6>>, <<"side)", 5>>, <<"sorry,", 6>>, <<"stop", 4>>, <<"stopped", 7>>, <<"stopping", 8>>,
     <<"straight", 8>>, <<"system", 6>>, <<"table", 5>>, <<"take", 4>>, <<"that", 4>>, <<"the", 3>>,
     <<"there", 5>>, <<"to", 2>>, <<"toward", 6>>, <<"towards", 7>>, <<"turn", 4>>, <<"turned", 6>>,
     <<"turning", 7>>, <<"understand", 10>>, <<"user:", 5>>, <<"vision", 6>>, <<"water", 5>>, <<"what", 4>>,
     <<"which", 5>>, <<"will", 4>>, <<"yes", 3>>, <<"you", 3>>, <<"your", 4>>, <<"°", 1>>,
     <<"°,", 2>>, <<"°?", 2>>}

\* <<s, p>> with p a proper substring of s (p in s)
InfixPairs ==
    {<<"(adjusted", "a">>, <<"(adjusted", "adjusted">>, <<"(adjusted", "t">>, <<"(the", "t">>,
     <<"(the", "the">>, <<", then", "t">>, <<", then", "the">>, <<", then", "then">>,
     <<", then:", ", then">>, <<", then:", "t">>, <<", then:", "the">>, <<", then:", "then">>,
     <<"Can", "a">>, <<"Can", "an">>, <<"Counter", "t">>, <<"Describe", "i">>,
     <<"Done", "on">>, <<"Done", "one">>, <<"Done.", "Done">>, <<"Done.", "on">>,
     <<"Done.", "one">>, <<"Find", "i">>, <<"Find", "in">>, <<"Going", "Go">>,
     <<"Going", "i">>, <<"Going", "in">>, <<"I've", "'">>, <<"I've", "I">>,
     <<"I've", "ve">>, <<"Let", "t">>, <<"Misty", "i">>, <<"Misty", "is">>,
     <<"Misty", "t">>, <<"Move", "ve">>, <<"Moving", "i">>, <<"Moving", "in">>,
     <<"Navigate", "a">>, <<"Navigate", "i">>, <<"Navigate", "t">>, <<"None", "on">>,
     <<"None", "one">>, <<"Sorry,", "Sorry">>, <<"Stopping", "i">>, <<"Stopping", "in">>,
     <<"Stopping", "t">>, <<"Stopping", "to">>, <<"Turning", "i">>, <<"Turning", "in">>,
     <<"User:", "User">>, <<"Which", "i">>, <<"action", "a">>, <<"action", "i">>,
     <<"action", "on">>, <<"action", "t">>, <<"action:", "a">>, <<"action:", "action">>,
     <<"action:", "i">>, <<"action:", "on">>, <<"action:", "t">>, <<"adjusted", "a">>,
     <<"adjusted", "t">>, <<"ahead", "a">>, <<"an", "a">>, <<"analyze", "a">>,
     <<"analyze", "an">>, <<"and", "a">>, <<"and", "an">>, <<"any", "a">>,
     <<"any", "an">>, <<"are", "a">>, <<"area", "a">>, <<"area", "are">>,
     <<"around", "a">>, <<"asked", "a">>, <<"asked:", "a">>, <<"asked:", "asked">>,
     <<"available", "a">>, <<"available", "i">>, <<"back", "a">>, <<"backward", "a">>,
     <<"backward", "back">>, <<"backward", "ward">>, <<"bag", "a">>, <<"bathroom", "a">>,
     <<"bathroom", "m">>, <<"bathroom", "room">>, <<"bathroom", "t">>, <<"bedroom", "m">>,
     <<"bedroom", "room">>, <<"before", "for">>, <<"behind", "i">>, <<"behind", "in">>,
     <<"bin", "i">>, <<"bin", "in">>, <<"bottle", "t">>, <<"but", "t">>,
     <<"can", "a">>, <<"can", "an">>, <<"capture", "a">>, <<"capture", "t">>,
     <<"center", "t">>, <<"chair", "a">>, <<"chair", "i">>, <<"chairs", "a">>,
     <<"chairs", "chair">>, <<"chairs", "i">>, <<"checked", "check">>, <<"clarification", "a">>,
     <<"clarification", "i">>, <<"clarification", "if">>, <<"clarification", "on">>, <<"clarification", "t">>,
     <<"clarify", "a">>, <<"clarify", "i">>, <<"clarify", "if">>, <<"clarify?", "a">>,
     <<"clarify?", "clarify">>, <<"clarify?", "i">>, <<"clarify?", "if">>, <<"coffee", "of">>,
     <<"coffee", "off">>, <<"command", "a">>, <<"command", "an">>, <<"command", "and">>,
     <<"command", "m">>, <<"completed", "let">>, <<"completed", "m">>, <<"completed", "t">>,
     <<"connected", "on">>, <<"connected", "t">>, <<"couldn't", "'">>, <<"couldn't", "couldn">>,
     <<"couldn't", "t">>, <<"count", "t">>, <<"counted", "count">>, <<"counted", "t">>,
     <<"counter", "count">>, <<"counter", "t">>, <<"cup", "up">>, <<"describe", "i">>,
     <<"described", "describe">>, <<"described", "i">>, <<"didn", "i">>, <<"didn't", "'">>,
     <<"didn't", "didn">>, <<"didn't", "i">>, <<"didn't", "t">>, <<"distance", "a">>,
     <<"distance", "an">>, <<"distance", "i">>, <<"distance", "is">>, <<"distance", "t">>,
     <<"don", "on">>, <<"don't", "'">>, <<"don't", "don">>, <<"don't", "on">>,
     <<"don't", "t">>, <<"done", "don">>, <<"done", "on">>, <<"done", "one">>,
     <<"done.", "don">>, <<"done.", "done">>, <<"done.", "on">>, <<"done.", "one">>,
     <<"doorway", "a">>, <<"doorway", "door">>, <<"eight", "i">>, <<"eight", "t">>,
     <<"eleven", "ve">>, <<"environment", "i">>, <<"environment", "m">>, <<"environment", "me">>,
     <<"environment", "on">>, <<"environment", "t">>, <<"executed", "t">>, <<"executed:", "executed">>,
     <<"executed:", "t">>, <<"fall", "a">>, <<"find", "i">>, <<"find", "in">>,
     <<"find_object", "find">>, <<"find_object", "i">>, <<"find_object", "in">>, <<"find_object", "object">>,
     <<"find_object", "t">>, <<"five", "i">>, <<"five", "ve">>, <<"forward", "a">>,
     <<"forward", "for">>, <<"forward", "ward">>, <<"fridge", "i">>, <<"front", "on">>,
     <<"front", "t">>, <<"fruit", "i">>, <<"fruit", "it">>, <<"fruit", "t">>,
     <<"garage", "a">>, <<"glasses", "a">>, <<"going", "go">>, <<"going", "i">>,
     <<"going", "in">>, <<"hallway", "a">>, <<"i've", "'">>, <<"i've", "i">>,
     <<"i've", "ve">>, <<"if", "i">>, <<"image", "a">>, <<"image", "i">>,
     <<"image", "m">>, <<"images", "a">>, <<"images", "i">>, <<"images", "image">>,
     <<"images", "m">>, <<"in", "i">>, <<"inside", "i">>, <<"inside", "in">>,
     <<"inside", "side">>, <<"is", "i">>, <<"it", "i">>, <<"it", "t">>,
     <<"kitchen", "i">>, <<"kitchen", "it">>, <<"kitchen", "t">>, <<"know", "no">>,
     <<"laptop", "a">>, <<"laptop", "t">>, <<"laptop", "to">>, <<"large", "a">>,
     <<"left", "t">>, <<"let", "t">>, <<"living", "i">>, <<"living", "in">>,
     <<"looking", "i">>, <<"looking", "in">>, <<"looking", "look">>, <<"m)", "m">>,
     <<"m?", "m">>, <<"maker", "a">>, <<"maker", "m">>, <<"many", "a">>,
     <<"many", "an">>, <<"many", "any">>, <<"many", "m">>, <<"me", "m">>,
     <<"medium", "i">>, <<"medium", "m">>, <<"medium", "me">>, <<"meter", "m">>,
     <<"meter", "me">>, <<"meter", "t">>, <<"meters", "m">>, <<"meters", "me">>,
     <<"meters", "meter">>, <<"meters", "t">>, <<"microwave", "a">>, <<"microwave", "i">>,
     <<"microwave", "m">>, <<"microwave", "ve">>, <<"middle", "i">>, <<"middle", "m">>,
     <<"misty", "i">>, <<"misty", "is">>, <<"misty", "m">>, <<"misty", "t">>,
     <<"move", "m">>, <<"move", "ve">>, <<"moved", "m">>, <<"moved", "move">>,
     <<"moved", "ve">>, <<"moving", "i">>, <<"moving", "in">>, <<"moving", "m">>,
     <<"mug", "m">>, <<"my", "m">>, <<"navigate", "a">>, <<"navigate", "i">>,
     <<"navigate", "t">>, <<"navigated", "a">>, <<"navigated", "i">>, <<"navigated", "navigate">>,
     <<"navigated", "t">>, <<"nine", "i">>, <<"nine", "in">>, <<"none", "no">>,
     <<"none", "on">>, <<"none", "one">>, <<"not", "no">>, <<"not", "t">>,
     <<"object", "t">>, <<"off", "of">>, <<"office", "i">>, <<"office", "of">>,
     <<"office", "off">>, <<"one", "on">>, <<"one?", "on">>, <<"one?", "one">>,
     <<"perform", "for">>, <<"perform", "m">>, <<"phone", "on">>, <<"phone", "one">>,
     <<"plant", "a">>, <<"plant", "an">>, <<"plant", "t">>, <<"reach", "a">>,
     <<"reached", "a">>, <<"reached", "reach">>, <<"report", "t">>, <<"reported", "report">>,
     <<"reported", "t">>, <<"respond", "on">>, <<"respond:", "on">>, <<"respond:", "respond">>,
     <<"right", "i">>, <<"right", "t">>, <<"robot", "t">>, <<"room", "m">>,
     <<"said", "a">>, <<"said", "i">>, <<"said:", "a">>, <<"said:", "i">>,
     <<"said:", "said">>, <<"scan", "a">>, <<"scan", "an">>, <<"scan", "can">>,
     <<"scan,", "a">>, <<"scan,", "an">>, <<"scan,", "can">>, <<"scan,", "scan">>,
     <<"scanning", "a">>, <<"scanning", "an">>, <<"scanning", "can">>, <<"scanning", "i">>,
     <<"scanning", "in">>, <<"scanning", "scan">>, <<"sees", "see">>, <<"seven", "ve">>,
     <<"several", "a">>, <<"several", "ve">>, <<"short", "t">>, <<"side", "i">>,
     <<"side)", "i">>, <<"side)", "side">>, <<"six", "i">>, <<"small", "a">>,
     <<"small", "m">>, <<"sorry,", "sorry">>, <<"stop", "t">>, <<"stop", "to">>,
     <<"stopped", "stop">>, <<"stopped", "t">>, <<"stopped", "to">>, <<"stopping", "i">>,
     <<"stopping", "in">>, <<"stopping", "stop">>, <<"stopping", "t">>, <<"stopping", "to">>,
     <<"straight", "a">>, <<"straight", "i">>, <<"straight", "t">>, <<"system", "m">>,
     <<"system", "t">>, <<"table", "a">>, <<"table", "t">>, <<"take", "a">>,
     <<"take", "t">>, <<"ten", "t">>, <<"that", "a">>, <<"that", "t">>,
     <<"the", "t">>, <<"then", "t">>, <<"then", "the">>, <<"there", "t">>,
     <<"there", "the">>, <<"three", "t">>, <<"to", "t">>, <<"total", "a">>,
     <<"total", "t">>, <<"total", "to">>, <<"toward", "a">>, <<"toward", "t">>,
     <<"toward", "to">>, <<"toward", "ward">>, <<"towards", "a">>, <<"towards", "t">>,
     <<"towards", "to">>, <<"towards", "toward">>, <<"towards", "ward">>, <<"trash", "a">>,
     <<"trash", "t">>, <<"turn", "t">>, <<"turned", "t">>, <<"turned", "turn">>,
     <<"turning", "i">>, <<"turning", "in">>, <<"turning", "t">>, <<"turning", "turn">>,
     <<"twelve", "t">>, <<"twelve", "ve">>, <<"two", "t">>, <<"understand", "a">>,
     <<"understand", "an">>, <<"understand", "and">>, <<"understand", "t">>, <<"user:", "user">>,
     <<"very", "ve">>, <<"vision", "i">>, <<"vision", "is">>, <<"vision", "on">>,
     <<"ward", "a">>, <<"water", "a">>, <<"water", "t">>, <<"what", "a">>,
     <<"what", "t">>, <<"which", "i">>, <<"white", "i">>, <<"white", "it">>,
     <<"white", "t">>, <<"will", "i">>, <<"within", "i">>, <<"within", "in">>,
     <<"within", "it">>, <<"within", "t">>, <<"your", "you">>, <<"°,", "°">>,
     <<"°?", "°">>}

\* <<s, p>> with p a proper prefix of s (s.startswith(p))
PrefixPairs ==
    {<<", then:", ", then">>, <<"Done.", "Done">>, <<"Going", "Go">>, <<"I've", "I">>,
     <<"Sorry,", "Sorry">>, <<"User:", "User">>, <<"action", "a">>, <<"action:", "a">>,
     <<"action:", "action">>, <<"adjusted", "a">>, <<"ahead", "a">>, <<"an", "a">>,
     <<"analyze", "a">>, <<"analyze", "an">>, <<"and", "a">>, <<"and", "an">>,
     <<"any", "a">>, <<"any", "an">>, <<"are", "a">>, <<"area", "a">>,
     <<"area", "are">>, <<"around", "a">>, <<"asked", "a">>, <<"asked:", "a">>,
     <<"asked:", "asked">>, <<"available", "a">>, <<"backward", "back">>, <<"chairs", "chair">>,
     <<"checked", "check">>, <<"clarify?", "clarify">>, <<"couldn't", "couldn">>, <<"counted", "count">>,
     <<"counter", "count">>, <<"described", "describe">>, <<"didn't", "didn">>, <<"don't", "don">>,
     <<"done", "don">>, <<"done.", "don">>, <<"done.", "done">>, <<"doorway", "door">>,
     <<"executed:", "executed">>, <<"find_object", "find">>, <<"forward", "for">>, <<"going", "go">>,
     <<"i've", "i">>, <<"if", "i">>, <<"image", "i">>, <<"images", "i">>,
     <<"images", "image">>, <<"in", "i">>, <<"inside", "i">>, <<"inside", "in">>,
     <<"is", "i">>, <<"it", "i">>, <<"looking", "look">>, <<"m)", "m">>,
     <<"m?", "m">>, <<"maker", "m">>, <<"many", "m">>, <<"me", "m">>,
     <<"medium", "m">>, <<"medium", "me">>, <<"meter", "m">>, <<"meter", "me">>,
     <<"meters", "m">>, <<"meters", "me">>, <<"meters", "meter">>, <<"microwave", "m">>,
     <<"middle", "m">>, <<"misty", "m">>, <<"move", "m">>, <<"moved", "m">>,
     <<"moved", "move">>, <<"moving", "m">>, <<"mug", "m">>, <<"my", "m">>,
     <<"navigated", "navigate">>, <<"none", "no">>, <<"not", "no">>, <<"off", "of">>,
     <<"office", "of">>, <<"office", "off">>, <<"one", "on">>, <<"one?", "on">>,
     <<"one?", "one">>, <<"reached", "reach">>, <<"reported", "report">>, <<"respond:", "respond">>,
     <<"said:", "said">>, <<"scan,", "scan">>, <<"scanning", "scan">>, <<"sees", "see">>,
     <<"side)", "side">>, <<"sorry,", "sorry">>, <<"stopped", "stop">>, <<"stopping", "stop">>,
     <<"table", "t">>, <<"take", "t">>, <<"ten", "t">>, <<"that", "t">>,
     <<"the", "t">>, <<"then", "t">>, <<"then", "the">>, <<"there", "t">>,
     <<"there", "the">>, <<"three", "t">>, <<"to", "t">>, <<"total", "t">>,
     <<"total", "to">>, <<"toward", "t">>, <<"toward", "to">>, <<"towards", "t">>,
     <<"towards", "to">>, <<"towards", "toward">>, <<"trash", "t">>, <<"turn", "t">>,
     <<"turned", "t">>, <<"turned", "turn">>, <<"turning", "t">>, <<"turning", "turn">>,
     <<"twelve", "t">>, <<"two", "t">>, <<"user:", "user">>, <<"very", "ve">>,
     <<"your", "you">>, <<"°,", "°">>, <<"°?", "°">>}

\* <<s, p>> with p a proper suffix of s (s.endswith(p))
SuffixPairs ==
    {<<"(adjusted", "adjusted">>, <<"(the", "the">>, <<", then", "then">>, <<"Can", "an">>,
     <<"Done", "one">>, <<"I've", "ve">>, <<"Let", "t">>, <<"Move", "ve">>,
     <<"None", "one">>, <<"action", "on">>, <<"area", "a">>, <<"backward", "ward">>,
     <<"bathroom", "m">>, <<"bathroom", "room">>, <<"bedroom", "m">>, <<"bedroom", "room">>,
     <<"bin", "in">>, <<"but", "t">>, <<"can", "an">>, <<"clarification", "on">>,
     <<"command", "and">>, <<"couldn't", "t">>, <<"count", "t">>, <<"cup", "up">>,
     <<"didn't", "t">>, <<"don", "on">>, <<"don't", "t">>, <<"done", "one">>,
     <<"eight", "t">>, <<"environment", "t">>, <<"find_object", "object">>, <<"find_object", "t">>,
     <<"five", "ve">>, <<"forward", "ward">>, <<"front", "t">>, <<"fruit", "it">>,
     <<"fruit", "t">>, <<"i've", "ve">>, <<"inside", "side">>, <<"it", "t">>,
     <<"left", "t">>, <<"let", "t">>, <<"many", "any">>, <<"medium", "m">>,
     <<"microwave", "ve">>, <<"move", "ve">>, <<"none", "one">>, <<"not", "t">>,
     <<"object", "t">>, <<"perform", "m">>, <<"phone", "one">>, <<"plant", "t">>,
     <<"report", "t">>, <<"right", "t">>, <<"robot", "t">>, <<"room", "m">>,
     <<"scan", "an">>, <<"scan", "can">>, <<"short", "t">>, <<"straight", "t">>,
     <<"system", "m">>, <<"that", "t">>, <<"toward", "ward">>, <<"twelve", "ve">>,
     <<"understand", "and">>, <<"vision", "on">>, <<"what", "t">>, <<"within", "in">>}

\* <<s, a, b, c>> for the words s that are not one run of word characters
\* (\w+): the run s begins with, the first one in s, the one s ends with
RunTable ==
    {<<"'", "", "", "">>, <<"(adjusted", "", "adjusted", "adjusted">>, <<"(the", "", "the", "the">>,
     <<", then", "", "then", "then">>, <<", then:", "", "then", "">>, <<"-", "", "", "">>,
     <<"Done.", "Done", "Done", "">>, <<"I've", "I", "I", "ve">>, <<"Sorry,", "Sorry", "Sorry", "">>,
     <<"User:", "User", "User", "">>, <<"action:", "action", "action", "">>, <<"asked:", "asked", "asked", "">>,
     <<"clarify?", "clarify", "clarify", "">>, <<"couldn't", "couldn", "couldn", "t">>, <<"didn't", "didn", "didn", "t">>,
     <<"don't", "don", "don", "t">>, <<"done.", "done", "done", "">>, <<"executed:", "executed", "executed", "">>,
     <<"i've", "i", "i", "ve">>, <<"m)", "m", "m", "">>, <<"m?", "m", "m", "">>,
     <<"one?", "one", "one", "">>, <<"respond:", "respond", "respond", "">>, <<"said:", "said", "said", "">>,
     <<"scan,", "scan", "scan", "">>, <<"side)", "side", "side", "">>, <<"sorry,", "sorry", "sorry", "">>,
     <<"user:", "user", "user", "">>, <<"°", "", "", "">>, <<"°,", "", "", "">>,
     <<"°?", "", "", "">>}

\* <<s, k, s.replace(k, "")>> for the qualifiers k inside a longer word s
RemoveTable ==
    {<<"backward", "back", "ward">>}
\* string tables: end

\* str.lower() on one token
LowerWord(s) ==
    IF \E p \in LowerPairs : p[1] = s
    THEN (CHOOSE p \in LowerPairs : p[1] = s)[2]
    ELSE s

Lower(text) == [i \in 1..Len(text) |->
                  IF IsNum(text[i]) THEN text[i] ELSE W(LowerWord(text[i].w))]

\* a keyword or key phrase the code searches for: its words
P(ws) == ws

\* p in s, s.startswith(p), s.endswith(p) on single words
Infix(s, p) == s = p \/ <<s, p>> \in InfixPairs
Prefix(s, p) == s = p \/ <<s, p>> \in PrefixPairs
Suffix(s, p) == s = p \/ <<s, p>> \in SuffixPairs

\* `phrase in text` (Python's substring test): the empty phrase is in every
\* text; a one-word phrase lies inside
\* one token; a longer phrase ends a token, equals the tokens between and
\* begins a token, the tokens being separated by single blanks
Contains(text, phrase) ==
    LET n == Len(phrase) IN
    IF n = 0 THEN TRUE
    ELSE IF n = 1
    THEN \E i \in 1..Len(text) : ~IsNum(text[i]) /\ Infix(text[i].w, phrase[1])
    ELSE \E i \in 1..(Len(text) - n + 1) :
            /\ \A j \in 1..n : ~IsNum(text[i + j - 1])
            /\ Suffix(text[i].w, phrase[1])
            /\ \A j \in 2..(n - 1) : text[i + j - 1].w = phrase[j]
            /\ Prefix(text[i + n - 1].w, phrase[n])

\* any(k in text for k in keywords)
ContainsAny(text, keywords) ==
    \E i \in 1..Len(keywords) : Contains(text, keywords[i])

\* the multi-step separators: ", then " and ", then: "
SEP == W(", then")
SEPC == W(", then:")
IsSep(t) == t = SEP \/ t = SEPC

\* tokens that begin with the letter m (after optional whitespace)
StartsWithM(t) == t.k = "w" /\ t.w \in {"m", "m)", "m?", "m'", "meters", "meters?", "meter", "more", "move", "moved"}

\* tokens that begin with the degree sign, written right after a numeral
StartsWithDeg(t) == t.k = "w" /\ t.w \in {"°", "°,", "°)", "°?", "°'"}

\* tokens that end with "adjusted" / "moved" followed by one blank
EndsWithAdjusted(t) == t.k = "w" /\ t.w \in {"adjusted", "(adjusted"}
EndsWithMoved(t) == t.k = "w" /\ t.w \in {"moved"}

\* the value of the digit run d1 d2 ... as an integer
RECURSIVE DigitsValue(_)
DigitsValue(ds) ==
    IF ds = <<>> THEN 0
    ELSE 10 * DigitsValue(SubSeq(ds, 1, Len(ds) - 1)) + ds[Len(ds)]

\* float("ip.fp") in millimetres; fp has at most three digits
FloatMilli(t) ==
    t.ip * 1000 +
    (CASE Len(t.fp) = 0 -> 0
       [] Len(t.fp) = 1 -> t.fp[1] * 100
       [] Len(t.fp) = 2 -> t.fp[1] * 100 + t.fp[2] * 10
       [] Len(t.fp) = 3 -> t.fp[1] * 100 + t.fp[2] * 10 + t.fp[3])

\* result of a failed re.search
NoMatch == -1

\* least index in S, or 0 when S is empty
MinIdx(S) == IF S = {} THEN 0 ELSE CHOOSE i \in S : \A j \in S : i <= j

\* re.search(r'(\d+\.?\d*)\s*m', text): float(group(1)) in mm
SearchDistM(text) ==
    LET i == MinIdx({j \in 1..(Len(text) - 1) :
                        IsNum(text[j]) /\ StartsWithM(text[j + 1])})
    IN  IF i = 0 THEN NoMatch ELSE FloatMilli(text[i])

\* re.search(r'moved (\d+\.?\d*)\s*m', text): float(group(1)) in mm
SearchMovedDistM(text) ==
    LET i == MinIdx({j \in 2..(Len(text) - 1) :
                        /\ EndsWithMoved(text[j - 1])
                        /\ IsNum(text[j]) /\ ~text[j].neg
                        /\ StartsWithM(text[j + 1])})
    IN  IF i = 0 THEN NoMatch ELSE FloatMilli(text[i])

\* re.search(r'(\d+)°', text): int(group(1)); the digit run that ends at
\* the degree sign is the fraction digits when the numeral has a '.'
SearchDegSign(text) ==
    LET i == MinIdx({j \in 1..(Len(text) - 1) :
                        IsNum(text[j]) /\ StartsWithDeg(text[j + 1])})
    IN  IF i = 0 THEN NoMatch
        ELSE IF text[i].fp = <<>> THEN text[i].ip ELSE DigitsValue(text[i].fp)

\* re.search(r'adjusted (\d+)°', text): int(group(1))
SearchAdjustedDeg(text) ==
    LET i == MinIdx({j \in 2..(Len(text) - 1) :
                        /\ EndsWithAdjusted(text[j - 1])
                        /\ IsNum(text[j]) /\ ~text[j].neg /\ text[j].fp = <<>>
                        /\ StartsWithDeg(text[j + 1])})
    IN  IF i = 0 THEN NoMatch ELSE text[i].ip

\* re.search(r'(\d+)', text): int(group(1)), the first digit run of the text
SearchFirstInt(text) ==
    LET i == MinIdx({j \in 1..Len(text) : IsNum(text[j])})
    IN  IF i = 0 THEN NoMatch ELSE text[i].ip

\* re.split(r',\s*then:?\s*', text)
RECURSIVE SplitThen(_)
SplitThen(text) ==
    LET i == MinIdx({j \in 1..Len(text) : IsSep(text[j])})
    IN  IF i = 0 THEN <<text>>
        ELSE <<SubSeq(text, 1, i - 1)>> \o SplitThen(SubSeq(text, i + 1, Len(text)))

-----------------------------------------------------------------------------
(* ActionParser.parse_action: the robot decision rendered as text *)

\* dict.get(key, default)
Get(d, key, default) == IF key \in d.keys THEN d[key] ELSE default

\* a single-action intent and an 'actions' sequence intent
Intent(keys, action, text, distance, turn_degrees, target_object, actions) ==
    [keys |-> keys, action |-> action, text |-> text, distance |-> distance,
     turn_degrees |-> turn_degrees, target_object |-> target_object,
     actions |-> actions]

\* one element of intent['actions']
Act(keys, action, distance, turn_degrees) ==
    [keys |-> keys, action |-> action, distance |-> distance,
     turn_degrees |-> turn_degrees]

\* the description of one element of the 'actions' list, <<>> when skipped
ActDescription(act) ==
    LET act_type == Get(act, "action", "None") IN
    CASE act_type = "forward" ->
           <<Words(<<"moved", "forward">>) \o <<N(Get(act, "distance", PyInt(0))), W("m")>> >>
      [] act_type = "backward" ->
           <<Words(<<"moved", "backward">>) \o <<N(Get(act, "distance", PyInt(0))), W("m")>> >>
      [] act_type = "turn_left" ->
           <<Words(<<"turned", "left">>) \o <<N(Get(act, "turn_degrees", PyInt(0))), W("°")>> >>
      [] act_type = "turn_right" ->
           <<Words(<<"turned", "right">>) \o <<N(Get(act, "turn_degrees", PyInt(0))), W("°")>> >>
      [] OTHER -> <<>>

RECURSIVE ActDescriptions(_)
ActDescriptions(actions_list) ==
    IF actions_list = <<>> THEN <<>>
    ELSE ActDescription(Head(actions_list)) \o ActDescriptions(Tail(actions_list))

\* ", then ".join(descriptions)
RECURSIVE JoinThen(_)
JoinThen(descriptions) ==
    IF Len(descriptions) = 1 THEN descriptions[1]
    ELSE descriptions[1] \o <<SEP>> \o JoinThen(Tail(descriptions))

\* the single-action tail of parse_action
SingleActionDescription(vlm_response, action) ==
    CASE action = "forward" ->
           Words(<<"Misty", "moved", "forward">>)
             \o <<N(Get(vlm_response, "distance", PyInt(0))), W("meters")>>
      [] action = "backward" ->
           Words(<<"Misty", "moved", "backward">>)
             \o <<N(Get(vlm_response, "distance", PyInt(0))), W("meters")>>
      [] action = "turn_left" ->
           Words(<<"Misty", "turned", "left">>)
             \o <<N(Get(vlm_response, "turn_degrees", PyInt(0))), W("degrees")>>
      [] action = "turn_right" ->
           Words(<<"Misty", "turned", "right">>)
             \o <<N(Get(vlm_response, "turn_degrees", PyInt(0))), W("degrees")>>
      [] action = "spatial_navigate" ->
           Words(<<"Misty", "navigated", "to">>)
             \o Get(vlm_response, "target_object", Words(<<"object">>))
             \o <<W("(adjusted"), N(Get(vlm_response, "turn_degrees", PyInt(0))), W("°,"),
                  W("moved"), N(Get(vlm_response, "distance", PyInt(0))), W("m)")>>
      [] action = "stop" -> Words(<<"Misty", "stopped">>)
      [] OTHER -> Words(<<"Misty", "executed", "action:", action>>)

parse_action(vlm_response) ==
    LET action == Get(vlm_response, "action", "None")
        descriptions == IF "actions" \in vlm_response.keys
                        THEN ActDescriptions(vlm_response.actions) ELSE <<>>
        statement == Get(vlm_response, "text", <<>>)
    IN
    CASE action = "clarify" ->
           Words(<<"Misty", "asked:", "'">>)
             \o Get(vlm_response, "text", Words(<<"asked", "for", "clarification">>))
             \o <<W("'")>>
      [] action = "find_object" ->
           Words(<<"Misty", "will", "perform">>) \o <<N(PyInt(360)), W("°")>>
             \o Words(<<"scan", "to", "find">>)
             \o Get(vlm_response, "target_object", Words(<<"object">>))
      [] action = "describe_vision" ->
           Words(<<"Misty", "described", "what", "it", "sees">>)
      [] action = "speak" ->
           Words(<<"Misty", "said:", "'">>) \o statement \o <<W("'")>>
      [] OTHER ->
           IF descriptions # <<>>
           THEN IF statement # <<>>
                THEN Words(<<"Misty", "said", "'">>) \o statement
                       \o <<W("'"), SEPC>> \o JoinThen(descriptions)
                ELSE Words(<<"Misty", "executed:">>) \o JoinThen(descriptions)
           ELSE SingleActionDescription(vlm_response, action)


-----------------------------------------------------------------------------
(* WorldModel: collision geometry *)

\* class constants, in mm: ROBOT_RADIUS = 0.1, OBSTACLE_RADIUS = 0.1
ROBOT_RADIUS == 100
OBSTACLE_RADIUS == 100
\* the margin the robot is backed up by in addition, 0.05
BACKUP_MARGIN == 50
\* paths shorter than 0.01 are "no movement"
MIN_PATH_LENGTH == 10

\* a scene object; properties is a dict
Properties(keys, obstacle, radius, id, side) ==
    [keys |-> keys, obstacle |-> obstacle, radius |-> radius, id |-> id, side |-> side]
NoProperties == Properties({}, FALSE, 0, "", "")
ObstacleProperties == Properties({"obstacle"}, TRUE, 0, "", "")
SceneObject(name, position, properties) ==
    [name |-> name, position |-> position, properties |-> properties]

\* math.sqrt on a number of mm^2, rounded down
RECURSIVE SqrtIter(_, _, _)
SqrtIter(n, lo, hi) ==
    IF lo >= hi THEN lo
    ELSE LET mid == (lo + hi + 1) \div 2
         IN  IF mid * mid <= n THEN SqrtIter(n, mid, hi) ELSE SqrtIter(n, lo, mid - 1)
Sqrt(n) == SqrtIter(n, 0, IF n < 46340 THEN n ELSE 46340)

\* math.sin / math.cos of a multiple of 90 degrees
Sin(orientation) ==
    CASE orientation = 0 -> 0 [] orientation = 90 -> 1
      [] orientation = 180 -> 0 [] orientation = 270 -> -1
Cos(orientation) ==
    CASE orientation = 0 -> 1 [] orientation = 90 -> 0
      [] orientation = 180 -> -1 [] orientation = 270 -> 0

\* the value None of a collision result
NoCollision ==
    [collision |-> FALSE, obstacle_name |-> <<>>, obstacle_position |-> <<0, 0>>,
     collision_point |-> <<0, 0>>]

\* WorldModel._get_obstacles
_get_obstacles_all(objects) == objects
_get_obstacles(objects) ==
    SelectSeq(objects, LAMBDA obj : Get(obj.properties, "obstacle", FALSE))

\* the body of the loop of _check_collision_on_path for one obstacle
ObstacleCollision(obstacle, start_pos, end_pos, path_length, dir_x, dir_y) ==
    LET obs_pos == obstacle.position
        obs_radius == Get(obstacle.properties, "radius", OBSTACLE_RADIUS)
        collision_distance == ROBOT_RADIUS + obs_radius
        to_obs_x == obs_pos[1] - start_pos[1]
        to_obs_y == obs_pos[2] - start_pos[2]
        projection == to_obs_x * dir_x + to_obs_y * dir_y
        closest == IF projection < 0 THEN start_pos
                   ELSE IF projection > path_length THEN end_pos
                   ELSE <<start_pos[1] + projection * dir_x,
                          start_pos[2] + projection * dir_y>>
        dist_to_obstacle == Sqrt((closest[1] - obs_pos[1]) * (closest[1] - obs_pos[1])
                               + (closest[2] - obs_pos[2]) * (closest[2] - obs_pos[2]))
        backup_dist == collision_distance - dist_to_obstacle + BACKUP_MARGIN
        collision_point == IF projection > 0 /\ projection < path_length
                           THEN <<closest[1] - backup_dist * dir_x,
                                  closest[2] - backup_dist * dir_y>>
                           ELSE closest
    IN  IF dist_to_obstacle < collision_distance
        THEN [collision |-> TRUE, obstacle_name |-> obstacle.name,
              obstacle_position |-> obs_pos, collision_point |-> collision_point]
        ELSE NoCollision

\* the for loop of _check_collision_on_path: the first obstacle that collides
RECURSIVE FirstCollision(_, _, _, _, _, _)
FirstCollision(obstacles, start_pos, end_pos, path_length, dir_x, dir_y) ==
    IF obstacles = <<>> THEN NoCollision
    ELSE LET c == ObstacleCollision(Head(obstacles), start_pos, end_pos,
                                    path_length, dir_x, dir_y)
         IN  IF c.collision THEN c
             ELSE FirstCollision(Tail(obstacles), start_pos, end_pos,
                                 path_length, dir_x, dir_y)

\* the "no movement" early return of _check_collision_on_path
NoMovement(path_length) == path_length < MIN_PATH_LENGTH

\* WorldModel._check_collision_on_path
_check_collision_on_path(objects, start_pos, end_pos) ==
    LET obstacles == _get_obstacles(objects)
        dx == end_pos[1] - start_pos[1]
        dy == end_pos[2] - start_pos[2]
        path_length == Sqrt(dx * dx + dy * dy)
    IN  IF obstacles = <<>> THEN NoCollision
        ELSE IF NoMovement(path_length) THEN NoCollision
        ELSE FirstCollision(obstacles, start_pos, end_pos, path_length,
                            dx \div path_length, dy \div path_length)


-----------------------------------------------------------------------------
(* WorldModel: visibility and update_from_action *)

\* _update_visibility: FOV_ANGLE = 120, MAX_DISTANCE = 10.0
FOV_ANGLE == 120
MAX_DISTANCE == 10000

\* angle_diff <= FOV_ANGLE / 2 for the object at offset (dx, dy); with the
\* heading a unit axis vector h this is  (dx,dy).h >= |(dx,dy)| * cos 60;
\* atan2(0, 0) is 0, the bearing of an object at the robot's own position
WithinFov(dx, dy, orientation) ==
    LET dot == dx * Sin(orientation % 360) + dy * Cos(orientation % 360)
    IN  IF dx = 0 /\ dy = 0 THEN orientation % 360 = 0
        ELSE dot >= 0 /\ 4 * dot * dot >= dx * dx + dy * dy

\* _update_visibility's test with the range test "distance >= MAX_DISTANCE"
ObjectVisibleStrict(obj, position, orientation) ==
    LET dx == obj.position[1] - position[1]
        dy == obj.position[2] - position[2]
    IN  IF dx * dx + dy * dy >= MAX_DISTANCE * MAX_DISTANCE THEN FALSE
        ELSE WithinFov(dx, dy, orientation)

\* the body of _update_visibility's loop for one object
ObjectVisible(obj, position, orientation) ==
    LET dx == obj.position[1] - position[1]
        dy == obj.position[2] - position[2]
    IN  IF dx * dx + dy * dy > MAX_DISTANCE * MAX_DISTANCE THEN FALSE
        ELSE WithinFov(dx, dy, orientation)

\* the visible flag of every object, in scene order
_update_visibility(objects, position, orientation) ==
    [i \in 1..Len(objects) |-> ObjectVisible(objects[i], position, orientation)]

\* the components of the offset (dx, dy) along the heading and across it
Ahead(dx, dy, orientation) ==
    CASE orientation = 0 -> dy [] orientation = 90 -> dx
      [] orientation = 180 -> -dy [] orientation = 270 -> -dx
Across(dx, dy, orientation) ==
    CASE orientation = 0 -> dx [] orientation = 90 -> -dy
      [] orientation = 180 -> -dx [] orientation = 270 -> dy

\* math.sqrt(dx**2 + dy**2) between two points
Distance(p, q) ==
    Sqrt((p[1] - q[1]) * (p[1] - q[1]) + (p[2] - q[2]) * (p[2] - q[2]))

\* f"{x:.1f}" of a length in mm: tenths of a metre
OneDecimal(mm) == (mm + 50) \div 100

\* the bucket of _computed_angle for a visible object: below 15 degrees
\* (tan 15 = 0.268), below 45 degrees (tan 45 = 1), or wider
PovDirection(obj, position, orientation) ==
    LET dx == obj.position[1] - position[1]
        dy == obj.position[2] - position[2]
        ahead == Ahead(dx, dy, orientation)
        across == Across(dx, dy, orientation)
        side == IF across < 0 THEN -across ELSE across
    IN  IF dx = 0 /\ dy = 0 THEN "directly ahead"
        ELSE IF 1000 * side < 268 * ahead THEN "directly ahead"
        ELSE IF side < ahead THEN "slightly to the side"
        ELSE "to the side"

\* WorldModel.get_robot_pov_description: the robot's status, one line for
\* each object whose visible flag is set, one for each hazard with dy > 0
get_robot_pov_description(objects, hazards, position, orientation) ==
    LET Seen(obj) == ObjectVisible(obj, position, orientation)
        InFront(hazard) == hazard.position[2] - position[2] > 0
        seen == SelectSeq(objects, Seen)
        front == SelectSeq(hazards, InFront)
    IN  [facing |-> orientation % 360,
         position |-> <<OneDecimal(position[1]), OneDecimal(position[2])>>,
         objects |-> [i \in 1..Len(seen) |->
                        [name |-> seen[i].name,
                         dist |-> OneDecimal(Distance(seen[i].position, position)),
                         direction |-> PovDirection(seen[i], position, orientation),
                         blocking |-> seen[i].properties.obstacle]],
         hazards |-> [i \in 1..Len(front) |->
                        [description |-> front[i].description,
                         dist |-> OneDecimal(Distance(front[i].position, position))]]]

\* simulate_interaction's robot_input: the vision text, the scene_structure
\* of the task printed whole, and the user's command
robot_input(t, position, orientation, command) ==
    [vision |-> get_robot_pov_description(t.objects, t.hazards, position, orientation),
     scene_structure |-> [robot_initial |-> [position |-> t.position,
                                             orientation |-> t.orientation],
                          objects |-> t.objects, hazards |-> t.hazards],
     user_command |-> command]

\* LLMLayer.parse_intent_with_vision on the conversation history it keeps,
\* of which the model holds the role of each message: the user message is
\* appended before the model is called, the model's output after it answered
parse_intent_with_vision(history, raised) ==
    Append(history, "user") \o (IF raised THEN <<>> ELSE <<"assistant">>)

\* the mutable locals of one update_from_action call: the pose, the
\* collision_result, and the list of translates attempted (for the claims)
Locals(pos, ori, col, moves) == [pos |-> pos, ori |-> ori, col |-> col, moves |-> moves]

\* try_move / try_move_backward after the path check: at a collision the
\* robot is put on the collision point, otherwise on new_pos
Landed(st, new_pos, collision) ==
    IF collision.collision
    THEN Locals(collision.collision_point, st.ori, collision,
                Append(st.moves, [from |-> st.pos, to |-> new_pos,
                                  collision |-> collision, ori |-> st.ori]))
    ELSE Locals(new_pos, st.ori, st.col,
                Append(st.moves, [from |-> st.pos, to |-> new_pos,
                                  collision |-> collision, ori |-> st.ori]))

\* try_move (sign 1) and try_move_backward (sign -1) once new_pos is known
MoveTo(objects, st, new_pos) ==
    Landed(st, new_pos, _check_collision_on_path(objects, st.pos, new_pos))

\* try_move (sign 1) and try_move_backward (sign -1)
TryMove(objects, st, distance, sign) ==
    MoveTo(objects, st, <<st.pos[1] + sign * distance * Sin(st.ori),
                          st.pos[2] + sign * distance * Cos(st.ori)>>)

TurnRightNone(st, degrees) == st
TurnRight(st, degrees) == Locals(st.pos, (st.ori + degrees) % 360, st.col, st.moves)
TurnLeft(st, degrees) == Locals(st.pos, (st.ori - degrees) % 360, st.col, st.moves)

\* Format 1, `if adjusted_match:` and `if moved_match:`
AdjustedStep(st, degrees) ==
    IF degrees # NoMatch /\ degrees # 0 THEN TurnRight(st, degrees) ELSE st
MovedStep(objects, st, distance) ==
    IF distance # NoMatch THEN TryMove(objects, st, distance, 1) ELSE st

\* Format 1: "Misty navigated to X (adjusted Y°, moved Zm)"
ApplyNavigated(objects, st, action_description) ==
    MovedStep(objects, AdjustedStep(st, SearchAdjustedDeg(action_description)),
              SearchMovedDistM(action_description))

\* one `if <words> in text:` test of Formats 2 and 3 with the regex search
\* under it: said is the test, degrees and distance what the search found
TurnRightIf(st, said, degrees) ==
    IF said /\ degrees # NoMatch THEN TurnRight(st, degrees) ELSE st
TurnLeftIf(st, said, degrees) ==
    IF said /\ degrees # NoMatch THEN TurnLeft(st, degrees) ELSE st
MoveIf(objects, st, said, distance, sign) ==
    IF said /\ distance # NoMatch THEN TryMove(objects, st, distance, sign) ELSE st

\* Format 2: the four tests made on one sub-action, in the order of the code
SubActionSteps(objects, st, sub_lower, degrees, distance) ==
    MoveIf(objects,
           MoveIf(objects,
                  TurnLeftIf(TurnRightIf(st,
                                         \/ Contains(sub_lower, P(<<"turned", "right">>))
                                         \/ Contains(sub_lower, P(<<"turn", "right">>)),
                                         degrees),
                             \/ Contains(sub_lower, P(<<"turned", "left">>))
                             \/ Contains(sub_lower, P(<<"turn", "left">>)),
                             degrees),
                  \/ Contains(sub_lower, P(<<"moved", "forward">>))
                  \/ Contains(sub_lower, P(<<"move", "forward">>)),
                  distance, 1),
           \/ Contains(sub_lower, P(<<"moved", "backward">>))
           \/ Contains(sub_lower, P(<<"move", "backward">>)),
           distance, -1)

ApplySubAction(objects, st, sub_action) ==
    SubActionSteps(objects, st, Lower(sub_action), SearchDegSign(sub_action),
                   SearchDistM(sub_action))

\* the `if collision_result: break` at the head of the Format 2 loop
StopAfterCollisionNever(st) == FALSE
StopAfterCollision(st) == st.col.collision

\* Format 2: the loop over the sub-actions
RECURSIVE ApplySubActions(_, _, _)
ApplySubActions(objects, st, sub_actions) ==
    IF sub_actions = <<>> THEN st
    ELSE IF StopAfterCollision(st) THEN st
    ELSE ApplySubActions(objects, ApplySubAction(objects, st, Head(sub_actions)),
                         Tail(sub_actions))

\* Format 3: the four tests made on a simple description
SimpleSteps(objects, st, action_lower, degrees, distance) ==
    MoveIf(objects,
           MoveIf(objects,
                  TurnLeftIf(TurnRightIf(st,
                                         Contains(action_lower, P(<<"turned", "right">>)),
                                         degrees),
                             Contains(action_lower, P(<<"turned", "left">>)), degrees),
                  Contains(action_lower, P(<<"moved", "forward">>)), distance, 1),
           Contains(action_lower, P(<<"moved", "backward">>)), distance, -1)

\* Format 3: simple single actions
ApplySimple(objects, st, action_description) ==
    SimpleSteps(objects, st, Lower(action_description),
                SearchFirstInt(action_description), SearchDistM(action_description))

\* which of the three formats a description is handled as
IsNavigatedFormat(action_description) ==
    Contains(Lower(action_description), P(<<"navigated", "to">>))
IsMultiFormat(action_description) ==
    \E i \in 1..Len(action_description) : IsSep(action_description[i])

\* WorldModel.update_from_action without the history append: the pose and
\* the collision_result it ends with
update_from_action(objects, position, orientation, action_description) ==
    LET st == Locals(position, orientation, NoCollision, <<>>)
    IN  IF IsNavigatedFormat(action_description)
        THEN ApplyNavigated(objects, st, action_description)
        ELSE IF IsMultiFormat(action_description)
        THEN ApplySubActions(objects, st, SplitThen(action_description))
        ELSE ApplySimple(objects, st, action_description)


-----------------------------------------------------------------------------
(* TaskEvaluator: the goal text parsed into conditions *)

\* the run of word characters a word begins with, the first one inside it,
\* and the one it ends with ("" when there is none)
Irregular(s) == \E r \in RunTable : r[1] = s
RunsOf(s) == CHOOSE r \in RunTable : r[1] = s
LeadRun(s) == IF Irregular(s) THEN RunsOf(s)[2] ELSE s
FirstRun(s) == IF Irregular(s) THEN RunsOf(s)[3] ELSE s
TrailRun(s) == IF Irregular(s) THEN RunsOf(s)[4] ELSE s

\* tests on the token at index i of a text g (false outside the text)
IsW(g, i) == i \in 1..Len(g) /\ ~IsNum(g[i])
Eq(g, i, s) == IsW(g, i) /\ g[i].w = s
Pre(g, i, s) == IsW(g, i) /\ Prefix(g[i].w, s)
Suf(g, i, s) == IsW(g, i) /\ Suffix(g[i].w, s)
\* the token is exactly one run of word characters: (\w+) between blanks
Whole(g, i) == IsW(g, i) /\ LeadRun(g[i].w) = g[i].w /\ g[i].w # ""

\* (?:you|me|the robot) starting at token i
YouMeRobot(g, i) ==
    Pre(g, i, "you") \/ Pre(g, i, "me") \/ (Eq(g, i, "the") /\ Pre(g, i + 1, "robot"))

\* (left|right|center|middle) as the beginning of token i: the alternative
\* matched, "" when none
PositionAt(g, i) ==
    CASE Pre(g, i, "left") -> "left"
      [] Pre(g, i, "right") -> "right"
      [] Pre(g, i, "center") -> "center"
      [] Pre(g, i, "middle") -> "middle"
      [] OTHER -> ""

\* str.replace("middle", "center") on the words of an extracted target
ReplaceMiddle(ws) == [i \in 1..Len(ws) |-> IF ws[i] = "middle" THEN "center" ELSE ws[i]]

specific_targets ==
    <<P(<<"red", "cup">>), P(<<"blue", "cup">>), P(<<"green", "cup">>), P(<<"white", "cup">>),
      P(<<"red", "book">>), P(<<"blue", "book">>), P(<<"green", "book">>),
      P(<<"red", "mug">>), P(<<"white", "mug">>),
      P(<<"left", "bottle">>), P(<<"center", "bottle">>), P(<<"middle", "bottle">>),
      P(<<"right", "bottle">>),
      P(<<"left", "chair">>), P(<<"right", "chair">>),
      P(<<"left", "door">>), P(<<"right", "door">>),
      P(<<"left", "trash", "bin">>), P(<<"center", "trash", "bin">>),
      P(<<"right", "trash", "bin">>),
      P(<<"medium", "box">>), P(<<"small", "box">>), P(<<"large", "box">>),
      P(<<"back", "plant">>), P(<<"front", "plant">>), P(<<"back", "door">>),
      P(<<"front", "door">>)>>

filler_words == {"one", "it", "that", "this", "thing", "go", "navigate", "move"}

common_adjectives ==
    {"water", "plastic", "glass", "metal", "wooden", "small", "large",
     "big", "old", "new", "red", "blue", "green", "white", "black"}

generic_objects ==
    <<P(<<"cup">>), P(<<"bottle">>), P(<<"plant">>), P(<<"book">>), P(<<"laptop">>),
      P(<<"keys">>), P(<<"phone">>), P(<<"door">>), P(<<"chair">>), P(<<"desk">>),
      P(<<"table">>), P(<<"fridge">>), P(<<"trash", "bin">>), P(<<"box">>), P(<<"bag">>),
      P(<<"kitchen">>), P(<<"office">>), P(<<"mug">>)>>

\* the first phrase of the list the text contains, <<>> when none
FirstContained(text, phrases) ==
    LET i == MinIdx({j \in 1..Len(phrases) : Contains(text, phrases[j])})
    IN  IF i = 0 THEN <<>> ELSE phrases[i]

\* the five directional patterns: what each extracts from its first match,
\* <<>> when it has no match
\*   the\s+(\w+)\s+behind\s+(?:you|me|the robot)  ->  back \1
Directional1(g) ==
    LET i == MinIdx({j \in 1..Len(g) :
                 /\ Suf(g, j, "the") /\ Whole(g, j + 1)
                 /\ Eq(g, j + 2, "behind") /\ YouMeRobot(g, j + 3)})
    IN  IF i = 0 THEN <<>> ELSE <<"back", g[i + 1].w>>
\*   (\w+)\s+behind\s+(?:you|me|the robot)  ->  back \1
Directional2(g) ==
    LET i == MinIdx({j \in 1..Len(g) :
                 /\ IsW(g, j) /\ TrailRun(g[j].w) # ""
                 /\ Eq(g, j + 1, "behind") /\ YouMeRobot(g, j + 2)})
    IN  IF i = 0 THEN <<>> ELSE <<"back", TrailRun(g[i].w)>>
\*   the\s+(\w+)\s+in\s+front\s+(?:of\s+)?(?:you|me|the robot)  ->  front \1
Directional3(g) ==
    LET i == MinIdx({j \in 1..Len(g) :
                 /\ Suf(g, j, "the") /\ Whole(g, j + 1)
                 /\ Eq(g, j + 2, "in") /\ Eq(g, j + 3, "front")
                 /\ \/ Eq(g, j + 4, "of") /\ YouMeRobot(g, j + 5)
                    \/ YouMeRobot(g, j + 4)})
    IN  IF i = 0 THEN <<>> ELSE <<"front", g[i + 1].w>>
\*   to\s+the\s+(\w+)\s+behind  ->  back \1
Directional4(g) ==
    LET i == MinIdx({j \in 1..Len(g) :
                 /\ Suf(g, j, "to") /\ Eq(g, j + 1, "the")
                 /\ Whole(g, j + 2) /\ Pre(g, j + 3, "behind")})
    IN  IF i = 0 THEN <<>> ELSE <<"back", g[i + 2].w>>
\*   (\w+).*behind  ->  back \1: the first word of the text that a later
\*   token with "behind" follows
Directional5(g) ==
    LET i == MinIdx({j \in 1..Len(g) :
                 /\ IsW(g, j) /\ FirstRun(g[j].w) # ""
                 /\ \E b \in (j + 1)..Len(g) : IsW(g, b) /\ Infix(g[b].w, "behind")})
    IN  IF i = 0 THEN <<>> ELSE <<"back", FirstRun(g[i].w)>>

directional_patterns(g) ==
    <<Directional1(g), Directional2(g), Directional3(g), Directional4(g), Directional5(g)>>

\* the\s+(left|right|center|middle)\s+(\w+)\s+(\w+): "the middle water
\* bottle" gives "center bottle"
AdjNoun(g) ==
    LET i == MinIdx({j \in 1..Len(g) :
                 /\ Suf(g, j, "the")
                 /\ IsW(g, j + 1) /\ g[j + 1].w \in {"left", "right", "center", "middle"}
                 /\ Whole(g, j + 2)
                 /\ IsW(g, j + 3) /\ LeadRun(g[j + 3].w) # ""})
    IN  IF i = 0 THEN <<>>
        ELSE LET position == g[i + 1].w
                 word2 == g[i + 2].w
                 word3 == LeadRun(g[i + 3].w)
             IN  ReplaceMiddle(IF word2 \in common_adjectives
                               THEN <<position, word3>> ELSE <<position, word2>>)

\* the three positional patterns
\*   the\s+(\w+)\s+on\s+the\s+(left|right|center|middle)\s*(?:side)?  ->  \2 \1
Positional1(g) ==
    LET i == MinIdx({j \in 1..Len(g) :
                 /\ Suf(g, j, "the") /\ Whole(g, j + 1)
                 /\ Eq(g, j + 2, "on") /\ Eq(g, j + 3, "the")
                 /\ PositionAt(g, j + 4) # ""})
    IN  IF i = 0 THEN <<>> ELSE ReplaceMiddle(<<PositionAt(g, i + 4), g[i + 1].w>>)
\*   the\s+(left|right|center|middle)\s+(\w+)  ->  \1 \2
Positional2(g) ==
    LET i == MinIdx({j \in 1..Len(g) :
                 /\ Suf(g, j, "the")
                 /\ IsW(g, j + 1) /\ g[j + 1].w \in {"left", "right", "center", "middle"}
                 /\ IsW(g, j + 2) /\ LeadRun(g[j + 2].w) # ""})
    IN  IF i = 0 THEN <<>> ELSE ReplaceMiddle(<<g[i + 1].w, LeadRun(g[i + 2].w)>>)
\*   (\w+)\s+to\s+the\s+(left|right)  ->  \2 \1
Positional3(g) ==
    LET i == MinIdx({j \in 1..Len(g) :
                 /\ IsW(g, j) /\ TrailRun(g[j].w) # ""
                 /\ Eq(g, j + 1, "to") /\ Eq(g, j + 2, "the")
                 /\ (Pre(g, j + 3, "left") \/ Pre(g, j + 3, "right"))})
    IN  IF i = 0 THEN <<>>
        ELSE <<(IF Pre(g, i + 3, "left") THEN "left" ELSE "right"), TrailRun(g[i].w)>>

positional_patterns(g) == <<Positional1(g), Positional2(g), Positional3(g)>>

\* the first extraction of the list that is a match and whose object word
\* is no filler word, <<>> when none
FirstUsable(extractions) ==
    LET i == MinIdx({j \in 1..Len(extractions) :
                 /\ extractions[j] # <<>>
                 /\ extractions[j][Len(extractions[j])] \notin filler_words})
    IN  IF i = 0 THEN <<>> ELSE extractions[i]

\* the first candidate that is a match, <<>> when none: the early returns
\* of _extract_target_from_goal in their order
FirstNonEmpty(candidates) ==
    LET i == MinIdx({j \in 1..Len(candidates) : candidates[j] # <<>>})
    IN  IF i = 0 THEN <<>> ELSE candidates[i]

\* a target extraction that tries the generic nouns first
_extract_target_generic_first(goal_lower) ==
    FirstNonEmpty(<<FirstContained(goal_lower, generic_objects),
                    FirstContained(goal_lower, specific_targets),
                    FirstUsable(directional_patterns(goal_lower)),
                    FirstUsable(<<AdjNoun(goal_lower)>>),
                    FirstUsable(positional_patterns(goal_lower))>>)

\* TaskEvaluator._extract_target_from_goal: the target's words, <<>> for None
_extract_target_from_goal(goal_lower) ==
    FirstNonEmpty(<<FirstContained(goal_lower, specific_targets),
                    FirstUsable(directional_patterns(goal_lower)),
                    FirstUsable(<<AdjNoun(goal_lower)>>),
                    FirstUsable(positional_patterns(goal_lower)),
                    FirstContained(goal_lower, generic_objects)>>)

\* one goal condition; the fields a type does not use keep their defaults
Condition(type, target, distance_threshold, direction, target_distance, tolerance, goal_text) ==
    [type |-> type, target |-> target, distance_threshold |-> distance_threshold,
     direction |-> direction, target_distance |-> target_distance,
     tolerance |-> tolerance, goal_text |-> goal_text]

NavigateCondition(target, distance_threshold) ==
    Condition("navigate_to_object", target, distance_threshold, "", 0, 0, <<>>)

\* a numeral whose digits contain "180"
Has180(g) ==
    \E i \in 1..Len(g) :
        /\ IsNum(g[i])
        /\ \/ g[i].ip % 1000 = 180
           \/ (g[i].ip \div 10) % 1000 = 180
           \/ (g[i].fp # <<>> /\ DigitsValue(g[i].fp) % 1000 = 180)

\* re.search(r'find.*?(phone|keys|cup|bottle|bag|book|box)', goal_lower):
\* group(1), <<>> when there is no match
find_alternatives == <<"phone", "keys", "cup", "bottle", "bag", "book", "box">>
HasAlternative(g, j) ==
    IsW(g, j) /\ \E a \in 1..Len(find_alternatives) : Infix(g[j].w, find_alternatives[a])
\* the alternative found in the first token after token f that has one
AlternativeAfter(g, f) ==
    IF f = 0 \/ ~\E j \in (f + 1)..Len(g) : HasAlternative(g, j) THEN <<>>
    ELSE <<find_alternatives[
             MinIdx({a \in 1..Len(find_alternatives) :
                \E j \in (f + 1)..Len(g) :
                    /\ HasAlternative(g, j)
                    /\ \A k \in (f + 1)..(j - 1) : ~HasAlternative(g, k)
                    /\ Infix(g[j].w, find_alternatives[a])})]>>
FindTarget(g) ==
    AlternativeAfter(g, MinIdx({j \in 1..Len(g) : IsW(g, j) /\ Infix(g[j].w, "find")}))

\* re.search(r'within\s+(\d+\.?\d*)\s*m', goal_lower): float(group(1)) in mm
SearchWithinM(g) ==
    LET i == MinIdx({j \in 2..(Len(g) - 1) :
                       /\ Suf(g, j - 1, "within")
                       /\ IsNum(g[j]) /\ ~g[j].neg
                       /\ StartsWithM(g[j + 1])})
    IN  IF i = 0 THEN NoMatch ELSE FloatMilli(g[i])

\* re.search(r'(\d+\.?\d*)\s*meter', goal_lower): float(group(1)) in mm
SearchMeter(g) ==
    LET i == MinIdx({j \in 1..(Len(g) - 1) : IsNum(g[j]) /\ Pre(g, j + 1, "meter")})
    IN  IF i = 0 THEN NoMatch ELSE FloatMilli(g[i])

\* the `if not conditions:` fallback at the end of _parse_goal_conditions;
\* target is what _extract_target_from_goal gives for the goal again
DefaultFallback(conditions, target) ==
    IF conditions = <<>> /\ target # <<>>
    THEN <<NavigateCondition(target, 500)>>
    ELSE conditions

\* the condition of a "find" goal, and of a "move forward/backward" goal
FindCondition(found) ==
    IF found # <<>> THEN <<Condition("find_object", found, 0, "", 0, 0, <<>>)>> ELSE <<>>
MoveCondition(direction, meters) ==
    IF meters # NoMatch
    THEN <<Condition("move_distance", <<>>, 0, direction, meters, 300, <<>>)>>
    ELSE <<Condition("move_distance", <<>>, 0, direction, 500, 500, <<>>)>>
\* the distance threshold of a "navigate to" goal that says how close
CloseThreshold(within) == IF within # NoMatch THEN within ELSE 500

\* the branches of _parse_goal_conditions on the lowered goal and the
\* target extracted from it
GoalConditions(goal_lower, target, has_navigate) ==
    IF \/ Contains(goal_lower, P(<<"describe">>)) \/ Contains(goal_lower, P(<<"report">>))
       \/ Contains(goal_lower, P(<<"check">>)) \/ Contains(goal_lower, P(<<"count">>))
    THEN <<Condition("perceptual_task", <<>>, 0, "", 0, 0, goal_lower)>>
           \o (IF has_navigate /\ target # <<>>
               THEN <<NavigateCondition(target, 2000)>> ELSE <<>>)
    ELSE IF Contains(goal_lower, P(<<"find">>))
    THEN FindCondition(FindTarget(goal_lower))
    ELSE IF has_navigate
    THEN DefaultFallback(
           IF target = <<>> THEN <<>>
           ELSE IF \/ Contains(goal_lower, P(<<"very", "close">>))
                   \/ Contains(goal_lower, P(<<"within">>))
                THEN <<NavigateCondition(target, CloseThreshold(SearchWithinM(goal_lower)))>>
                ELSE <<NavigateCondition(target, 800)>>,
           target)
    ELSE IF \/ Contains(goal_lower, P(<<"move", "forward">>))
            \/ Contains(goal_lower, P(<<"move", "backward">>))
    THEN MoveCondition(IF Contains(goal_lower, P(<<"forward">>))
                       THEN "forward" ELSE "backward",
                       SearchMeter(goal_lower))
    ELSE IF Contains(goal_lower, P(<<"turn", "around">>)) \/ Has180(goal_lower)
    THEN <<Condition("turn_to_orientation", <<>>, 0, "", 180, 30, <<>>)>>
    ELSE DefaultFallback(<<>>, target)

\* TaskEvaluator._parse_goal_conditions
_parse_goal_conditions(task_goal) ==
    GoalConditions(Lower(task_goal), _extract_target_from_goal(Lower(task_goal)),
                   \/ Contains(Lower(task_goal), P(<<"navigate", "to">>))
                   \/ Contains(Lower(task_goal), P(<<"go", "to">>)))

-----------------------------------------------------------------------------
(* TaskEvaluator: the conditions checked against the world *)

\* the words of a text of words, and a phrase as a text
WordsOf(text) == [i \in 1..Len(text) |-> text[i].w]

\* s.replace(k, "") on one word
RemoveIn(s, k) ==
    IF s = k THEN ""
    ELSE IF \E r \in RemoveTable : r[1] = s /\ r[2] = k
    THEN (CHOOSE r \in RemoveTable : r[1] = s /\ r[2] = k)[3]
    ELSE s

\* phrase.replace(k, "").strip(), as the words that are left
RECURSIVE RemoveWord(_, _)
RemoveWord(phrase, k) ==
    IF phrase = <<>> THEN <<>>
    ELSE (IF RemoveIn(Head(phrase), k) = "" THEN <<>> ELSE <<RemoveIn(Head(phrase), k)>>)
           \o RemoveWord(Tail(phrase), k)

\* the directional qualifiers in the order the dict is walked, with the
\* direction each stands for
directional_qualifiers ==
    <<[kw |-> P(<<"back">>), direction |-> "back"],
      [kw |-> P(<<"behind">>), direction |-> "back"],
      [kw |-> P(<<"front">>), direction |-> "front"],
      [kw |-> P(<<"ahead">>), direction |-> "front"],
      [kw |-> P(<<"forward">>), direction |-> "front"]>>

\* index of the first qualifier the target contains, 0 when none
DirectionOf(target) ==
    MinIdx({i \in 1..Len(directional_qualifiers) :
              Contains(Words(target), directional_qualifiers[i].kw)})

position_qualifiers == <<P(<<"left">>), P(<<"center">>), P(<<"middle">>), P(<<"right">>)>>

\* Case 3 of the object loop: the inner loop over the position qualifiers
PositionMatch(obj, target) ==
    LET obj_name_lower == Lower(obj.name) IN
    \E i \in 1..Len(position_qualifiers) :
        LET qual == position_qualifiers[i][1] IN
        /\ Contains(Words(target), position_qualifiers[i])
        /\ \/ Contains(obj_name_lower, position_qualifiers[i])
           \/ ("side" \in obj.properties.keys /\ obj.properties.side = qual)
           \/ ("id" \in obj.properties.keys /\ obj.properties.id = qual)
        /\ \/ \E t \in 1..Len(target) :
                 target[t] # qual /\ Contains(obj_name_lower, <<target[t]>>)
           \/ Contains(obj_name_lower, RemoveWord(target, qual))

\* the loop state: the index of target_obj (0 for None), and whether the
\* loop was left by break
Found(target_obj, broke) == [target_obj |-> target_obj, broke |-> broke]

\* what the directional qualifier at index d (0 for none) makes of a target
TargetDirection(d) == IF d = 0 THEN "" ELSE directional_qualifiers[d].direction
TargetObjectType(target, d) ==
    IF d = 0 THEN <<>> ELSE RemoveWord(target, directional_qualifiers[d].kw[1])
\* obj.properties.get('id', '').lower()
ObjId(obj) == IF "id" \in obj.properties.keys THEN LowerWord(obj.properties.id) ELSE ""

\* Case 1 of the object loop: a target with a directional qualifier
DirectionalCase(obj, i, obj_name_lower, target_object_type, target_direction, obj_id, found) ==
    IF /\ ~Contains(obj_name_lower, target_object_type)
       /\ ~Contains(Words(target_object_type), WordsOf(obj_name_lower))
    THEN found
    ELSE IF obj_id = target_direction THEN Found(i, TRUE)
    ELSE IF target_direction = "back" /\ obj.position[2] < 0 THEN Found(i, TRUE)
    ELSE IF target_direction = "front" /\ obj.position[2] > 0 /\ found.target_obj = 0
    THEN Found(i, FALSE)
    ELSE found

\* Cases 2 to 4 of the object loop: exact match, position qualifier,
\* substring match
PlainCases(obj, i, obj_name_lower, target, found) ==
    IF WordsOf(obj_name_lower) = target THEN Found(i, TRUE)
    ELSE IF \E q \in 1..Len(position_qualifiers) :
               Contains(Words(target), position_qualifiers[q])
    THEN IF PositionMatch(obj, target) THEN Found(i, FALSE) ELSE found
    ELSE IF Contains(obj_name_lower, target)
    THEN IF found.target_obj = 0 THEN Found(i, FALSE) ELSE found
    ELSE found

\* the body of the object loop for obj, the i-th object of the scene
ObjectStep(obj, i, target, d, target_object_type, found) ==
    IF d # 0 /\ target_object_type # <<>>
    THEN DirectionalCase(obj, i, Lower(obj.name), target_object_type,
                         TargetDirection(d), ObjId(obj), found)
    ELSE PlainCases(obj, i, Lower(obj.name), target, found)

\* one iteration of `for obj in world_model.objects`
NavigationStep(objects, i, target, found) ==
    ObjectStep(objects[i], i, target, DirectionOf(target),
               TargetObjectType(target, DirectionOf(target)), found)

RECURSIVE NavigationLoop(_, _, _, _)
NavigationLoop(objects, i, target, found) ==
    IF i > Len(objects) \/ found.broke THEN found
    ELSE NavigationLoop(objects, i + 1, target, NavigationStep(objects, i, target, found))

\* the scene object a target resolves to: its index, 0 when not found
ResolveTarget(objects, target) ==
    NavigationLoop(objects, 1, target, Found(0, FALSE)).target_obj

\* the distance test of _check_navigation_to_object on target_obj, the
\* t-th object of the scene (0 for None)
WithinThreshold(objects, t, robot_pos, distance_threshold) ==
    /\ t # 0
    /\ (objects[t].position[1] - robot_pos[1]) * (objects[t].position[1] - robot_pos[1])
         + (objects[t].position[2] - robot_pos[2]) * (objects[t].position[2] - robot_pos[2])
       <= distance_threshold * distance_threshold

\* TaskEvaluator._check_navigation_to_object: is_met
_check_navigation_to_object(condition, objects, robot_pos) ==
    WithinThreshold(objects, ResolveTarget(objects, condition.target), robot_pos,
                    condition.distance_threshold)

\* TaskEvaluator._check_move_distance: is_met
_check_move_distance(condition, history) ==
    LET keywords == IF condition.direction = "forward"
                    THEN <<P(<<"moved", "forward">>), P(<<"forward">>)>>
                    ELSE <<P(<<"moved", "backward">>), P(<<"backward">>),
                           P(<<"back", "up">>)>>
    IN  \E a \in 1..Len(history) : ContainsAny(Lower(history[a]), keywords)

\* TaskEvaluator._check_orientation: is_met
_check_orientation(condition, orientation) ==
    LET d == orientation - 180
        diff == IF d < 0 THEN -d ELSE d
    IN  (IF diff > 180 THEN 360 - diff ELSE diff) <= condition.tolerance

\* "360° scan" in text
Has360Scan(text) ==
    \E i \in 1..(Len(text) - 2) :
        /\ IsNum(text[i])
        /\ (IF text[i].fp = <<>> THEN text[i].ip ELSE DigitsValue(text[i].fp)) % 1000 = 360
        /\ Eq(text, i + 1, "°") /\ Pre(text, i + 2, "scan")

\* TaskEvaluator._check_find_object: is_met
_check_find_object(condition, history) ==
    \E a \in 1..Len(history) :
        /\ Has360Scan(history[a]) \/ Contains(Lower(history[a]), P(<<"find_object">>))
        /\ Contains(Lower(history[a]), condition.target)

\* len() of a word and of a numeral as printed
WordLen(s) == (CHOOSE p \in LenPairs : p[1] = s)[2]
RECURSIVE DigitCount(_)
DigitCount(n) == IF n < 10 THEN 1 ELSE 1 + DigitCount(n \div 10)
TokenLen(t) ==
    IF IsNum(t)
    THEN (IF t.neg THEN 1 ELSE 0) + DigitCount(t.ip)
           + (IF t.fp = <<>> THEN 0 ELSE 1 + Len(t.fp))
    ELSE WordLen(t.w)

\* the quotation mark f-strings put around a spoken text, as a token
QUOTE == W("'")
QuotesUpTo(text, i) == Cardinality({j \in 1..i : text[j] = QUOTE})

\* no blank is written between token i and token i + 1: a unit after its
\* numeral, the comma of ", then", a quotation mark and what it encloses
Attached(text, i) ==
    \/ /\ IsNum(text[i]) /\ ~IsNum(text[i + 1])
       /\ text[i + 1].w \in {"m", "m)", "m?", "°", "°,", "°)", "°?"}
    \/ IsSep(text[i + 1])
    \/ text[i] = QUOTE /\ QuotesUpTo(text, i) % 2 = 1
    \/ text[i + 1] = QUOTE /\ QuotesUpTo(text, i + 1) % 2 = 0

\* len(text)
RECURSIVE CharLenFrom(_, _)
CharLenFrom(text, i) ==
    IF i > Len(text) THEN 0
    ELSE TokenLen(text[i])
           + (IF i < Len(text) /\ ~Attached(text, i) THEN 1 ELSE 0)
           + CharLenFrom(text, i + 1)
CharLen(text) == CharLenFrom(text, 1)

\* re.search(r"Misty said: '(.+?)'", action_desc): group(1), <<>> when
\* there is no match
SpeechOf(action_desc) ==
    LET i == MinIdx({j \in 1..(Len(action_desc) - 3) :
                 /\ Suf(action_desc, j, "Misty") /\ Eq(action_desc, j + 1, "said:")
                 /\ action_desc[j + 2] = QUOTE
                 /\ action_desc[j + 3] # QUOTE
                 /\ \E e \in (j + 4)..Len(action_desc) : action_desc[e] = QUOTE})
        e == MinIdx({e \in (i + 4)..Len(action_desc) : action_desc[e] = QUOTE})
    IN  IF i = 0 THEN <<>> ELSE SubSeq(action_desc, i + 3, e - 1)

number_words ==
    <<P(<<"zero">>), P(<<"one">>), P(<<"two">>), P(<<"three">>), P(<<"four">>),
      P(<<"five">>), P(<<"six">>), P(<<"seven">>), P(<<"eight">>), P(<<"nine">>),
      P(<<"ten">>), P(<<"eleven">>), P(<<"twelve">>), P(<<"no">>), P(<<"none">>),
      P(<<"several">>), P(<<"many">>)>>

\* any(c.isdigit() for c in text)
HasDigit(text) == \E i \in 1..Len(text) : IsNum(text[i])

perceptual_action_keywords ==
    <<P(<<"described">>), P(<<"look", "around">>), P(<<"looking">>), P(<<"checked">>),
      P(<<"reported">>), P(<<"counted">>), P(<<"scanning">>)>>

\* the check_subjects list built from the goal
check_subjects(goal_text) ==
    (IF Contains(goal_text, P(<<"plugged">>))
     THEN <<P(<<"plugged">>), P(<<"power">>), P(<<"connected">>)>> ELSE <<>>)
    \o (IF Contains(goal_text, P(<<"count">>))
        THEN <<P(<<"count">>), P(<<"there", "are">>), P(<<"there", "is">>), P(<<"total">>)>>
               \o number_words
        ELSE <<>>)
    \o (IF Contains(goal_text, P(<<"report">>)) \/ Contains(goal_text, P(<<"check">>))
        THEN <<P(<<"yes">>), P(<<"no">>), P(<<"is">>), P(<<"are">>)>> ELSE <<>>)

\* the tests made on the speech of a turn, lowered
AnswersQuestion(goal_text, speech) ==
    /\ speech # <<>>
    /\ \/ /\ Contains(goal_text, P(<<"count">>))
          /\ HasDigit(speech) \/ ContainsAny(speech, number_words)
       \/ ContainsAny(speech, check_subjects(goal_text))
       \/ Contains(goal_text, P(<<"check">>)) /\ CharLen(speech) > 5

\* one logged turn answers the perceptual question
SpokenAnswer(goal_text, action_desc) ==
    /\ Contains(action_desc, P(<<"Misty", "said:">>))
    /\ AnswersQuestion(goal_text, Lower(SpeechOf(action_desc)))

\* TaskEvaluator._check_perceptual_task: is_met
_check_perceptual_task(condition, history, turns) ==
    \/ \E a \in 1..Len(history) :
          \/ ContainsAny(Lower(history[a]), perceptual_action_keywords)
          \/ Has360Scan(Lower(history[a]))
    \/ \E t \in 1..Len(turns) : SpokenAnswer(condition.goal_text, turns[t])

\* TaskEvaluator._check_condition: is_met
_check_condition(condition, objects, robot_pos, orientation, history, turns) ==
    CASE condition.type = "navigate_to_object" ->
           _check_navigation_to_object(condition, objects, robot_pos)
      [] condition.type = "move_distance" -> _check_move_distance(condition, history)
      [] condition.type = "turn_to_orientation" -> _check_orientation(condition, orientation)
      [] condition.type = "find_object" -> _check_find_object(condition, history)
      [] condition.type \in {"perceptual_task", "describe_vision"} ->
           _check_perceptual_task(condition, history, turns)
      [] OTHER -> FALSE

\* the value of evaluate_task_success; success_rate is the fraction
\* <<numerator, denominator>>, 0.0 being <<0, 1>>
Evaluation(success, goal_conditions_met, total_goal_conditions, success_rate, collision) ==
    [success |-> success, goal_conditions_met |-> goal_conditions_met,
     total_goal_conditions |-> total_goal_conditions,
     success_rate |-> success_rate, collision |-> collision]

\* `interaction_log.get("collision") is not None`
CollisionLoggedNever(collision) == FALSE
CollisionLogged(collision) == collision.collision

\* an evaluation that reports no success when there is no condition
EvaluatedGuarded(conditions_met, total_conditions) ==
    Evaluation(total_conditions > 0 /\ conditions_met = total_conditions,
               conditions_met, total_conditions,
               IF total_conditions > 0
               THEN <<conditions_met, total_conditions>> ELSE <<0, 1>>,
               FALSE)

\* an evaluation that reports success as soon as one condition is met
EvaluatedAny(conditions_met, total_conditions) ==
    Evaluation(conditions_met > 0, conditions_met, total_conditions,
               IF total_conditions > 0
               THEN <<conditions_met, total_conditions>> ELSE <<0, 1>>,
               FALSE)

\* the evaluation made of the number of conditions met
Evaluated(conditions_met, total_conditions) ==
    Evaluation(conditions_met = total_conditions, conditions_met, total_conditions,
               IF total_conditions > 0
               THEN <<conditions_met, total_conditions>> ELSE <<0, 1>>,
               FALSE)

\* the loop over the parsed goal conditions
EvaluateConditions(goal_conditions, objects, robot_pos, orientation, history, turns) ==
    Evaluated(Cardinality({c \in 1..Len(goal_conditions) :
                  _check_condition(goal_conditions[c], objects, robot_pos,
                                   orientation, history, turns)}),
              Len(goal_conditions))

\* TaskEvaluator.evaluate_task_success; turns are the logged action
\* descriptions, collision the log's collision entry
evaluate_task_success(objects, robot_pos, orientation, history, task_goal, turns, collision) ==
    IF CollisionLogged(collision)
    THEN Evaluation(FALSE, 0, 1, <<0, 1>>, TRUE)
    ELSE EvaluateConditions(_parse_goal_conditions(task_goal), objects, robot_pos,
                            orientation, history, turns)

-----------------------------------------------------------------------------
(* SimulatedUser *)

\* " ".join(texts)
RECURSIVE JoinBlank(_)
JoinBlank(texts) ==
    IF texts = <<>> THEN <<>> ELSE Head(texts) \o JoinBlank(Tail(texts))

general_areas ==
    <<P(<<"kitchen">>), P(<<"office">>), P(<<"living", "room">>), P(<<"bedroom">>),
      P(<<"bathroom">>), P(<<"hallway">>), P(<<"garage">>), P(<<"room">>), P(<<"area">>)>>

\* the navigation target named by the goal is a general area
NavIsGeneralArea(goal) ==
    \E a \in 1..Len(general_areas) :
        \/ Contains(goal, P(<<"to">>) \o general_areas[a])
        \/ Contains(goal, P(<<"to", "the">>) \o general_areas[a])

\* one observed action is a spoken answer to the goal's question
SpokenReport(goal, action) ==
    /\ Contains(action, P(<<"misty", "said:">>))
    /\ \/ /\ Contains(goal, P(<<"count">>))
          /\ HasDigit(action) \/ ContainsAny(action, number_words)
       \/ /\ Contains(goal, P(<<"check">>))
          /\ ContainsAny(action, <<P(<<"yes">>), P(<<"no">>), P(<<"is">>),
                                   P(<<"plugged">>), P(<<"power">>)>>)
       \/ Contains(goal, P(<<"report">>)) /\ CharLen(action) > 20
       \/ Contains(goal, P(<<"describe">>)) /\ CharLen(action) > 20

\* nav_done for a goal that has a navigation goal; actions_str is the
\* observed actions, lowered and joined
NavDone(goal, actions_str) ==
    IF NavIsGeneralArea(goal) THEN TRUE
    ELSE IF Contains(goal, P(<<"behind">>))
    THEN \/ Contains(actions_str, P(<<"moved", "backward">>))
         \/ Contains(actions_str, P(<<"navigated">>))
    ELSE IF Contains(goal, P(<<"in", "front">>)) \/ Contains(goal, P(<<"ahead">>))
    THEN \/ Contains(actions_str, P(<<"moved", "forward">>))
         \/ Contains(actions_str, P(<<"navigated">>))
    ELSE ContainsAny(actions_str, <<P(<<"navigated">>), P(<<"moved", "forward">>),
                                    P(<<"moved", "backward">>), P(<<"reached">>),
                                    P(<<"turned">>)>>)

\* report_done; actions is the observed actions, lowered
ReportDone(goal, actions, actions_str) ==
    \/ ContainsAny(actions_str, <<P(<<"described">>), P(<<"counted">>),
                                  P(<<"found">>), P(<<"checked">>),
                                  P(<<"reported">>)>>)
    \/ Has360Scan(actions_str)
    \/ \E a \in 1..Len(actions) : SpokenReport(goal, actions[a])

\* the remaining steps, from the lowered goal and the lowered actions
RemainingSteps(goal, actions, actions_str) ==
    (IF /\ ContainsAny(goal, <<P(<<"navigate", "to">>), P(<<"go", "to">>),
                               P(<<"move", "to">>), P(<<"reach">>)>>)
        /\ ~NavDone(goal, actions_str)
     THEN {"navigation"} ELSE {})
      \cup (IF /\ ContainsAny(goal, <<P(<<"report">>), P(<<"check">>), P(<<"describe">>),
                                      P(<<"count">>), P(<<"find">>), P(<<"look">>)>>)
               /\ ~ReportDone(goal, actions, actions_str)
            THEN {"observation"} ELSE {})

\* SimulatedUser.check_goal_progress: the remaining steps
check_goal_progress(task_goal, observed) ==
    RemainingSteps(Lower(task_goal), [i \in 1..Len(observed) |-> Lower(observed[i])],
                   JoinBlank([i \in 1..Len(observed) |-> Lower(observed[i])]))

\* one entry of conversation_history
Message(role, content) == [role |-> role, content |-> content]

\* what the chat completion call does: it returns a text or it raises
LLMReturns(content) == [raised |-> FALSE, content |-> content]
LLMRaises == [raised |-> TRUE, content |-> <<>>]

\* the clean-up of the initial command: both kinds of quotation mark go
CleanCommand(content) ==
    SelectSeq(content, LAMBDA t : t # QUOTE)

\* the clean-up of a reply: the labels "User:", "You said:" and
\* "I respond:" go
RECURSIVE DropLabels(_)
DropLabels(content) ==
    IF content = <<>> THEN <<>>
    ELSE IF Head(content) = W("User:") THEN DropLabels(Tail(content))
    ELSE IF Len(content) >= 2 /\ Head(content) \in {W("You"), W("I")}
            /\ content[2] = (IF Head(content) = W("You") THEN W("said:") ELSE W("respond:"))
    THEN DropLabels(SubSeq(content, 3, Len(content)))
    ELSE <<Head(content)>> \o DropLabels(Tail(content))
DropYouSaid(cleaned) ==
    IF Len(cleaned) >= 2 /\ Lower(SubSeq(cleaned, 1, 2)) = Words(<<"you", "said:">>)
    THEN SubSeq(cleaned, 3, Len(cleaned)) ELSE cleaned
CleanReply(content) == DropYouSaid(DropLabels(content))

\* SimulatedUser.generate_initial_command: the command returned and the
\* history after it; raised when the chat completion call raised
generate_initial_command(history, llm) ==
    IF llm.raised
    THEN [raised |-> TRUE, command |-> <<>>, history |-> history]
    ELSE [raised |-> FALSE, command |-> CleanCommand(llm.content),
          history |-> Append(history, Message("user", CleanCommand(llm.content)))]

\* the test that makes respond_to_robot return None; complete is its
\* task_complete argument
SignalsCompletionFlagOnly(complete, all_complete) == complete
SignalsCompletion(complete, all_complete) == complete \/ all_complete

\* what respond_to_robot leaves: null when it returned None, raised when
\* the chat completion call raised, the reply otherwise; llm_called, and the
\* conversation history
Response(null, raised, reply, all_complete, history) ==
    [null |-> null, raised |-> raised, reply |-> reply, llm_called |-> ~null,
     all_complete |-> all_complete, history |-> history]

\* respond_to_robot once the goal progress is known; reply is the cleaned
\* content of the completion
RespondWith(history, robot_message, complete, all_complete, llm, reply) ==
    IF SignalsCompletion(complete, all_complete)
    THEN Response(TRUE, FALSE, <<>>, all_complete, history)
    ELSE IF llm.raised
    THEN Response(FALSE, TRUE, <<>>, all_complete,
                  Append(history, Message("assistant", robot_message)))
    ELSE Response(FALSE, FALSE, reply, all_complete,
                  Append(Append(history, Message("assistant", robot_message)),
                         Message("user", reply)))

\* SimulatedUser.respond_to_robot
respond_to_robot(task_goal, observed, history, robot_message, complete, llm) ==
    RespondWith(history, robot_message, complete,
                check_goal_progress(task_goal, observed) = {}, llm,
                CleanReply(llm.content))

-----------------------------------------------------------------------------
(* Task scenarios *)

\* a task scenario; hazards is empty unless the scene lists some
Task(task_id, position, orientation, objects, task_goal) ==
    [task_id |-> task_id, position |-> position, orientation |-> orientation,
     objects |-> objects, hazards |-> <<>>, task_goal |-> task_goal]

\* one entry of a scene's "hazards" list
Hazard(type, position, description) ==
    [type |-> type, position |-> position, description |-> description]

\* traj_001: "Chair blocking book"
Traj001 ==
    Task("traj_001", <<0, 0>>, 0,
         <<SceneObject(Words(<<"chair">>), <<0, 1500>>, ObstacleProperties),
           SceneObject(Words(<<"book">>), <<0, 3000>>, NoProperties)>>,
         Words(<<"Navigate", "to", "the", "book", "by", "going", "around", "the", "chair">>))

\* complex_001: "Go to office and find bag", the bag inside the office
Complex001 ==
    Task("complex_001", <<0, 0>>, 0,
         <<SceneObject(Words(<<"office", "doorway">>), <<0, 3000>>, NoProperties),
           SceneObject(Words(<<"bag">>), <<500, 4000>>,
                       Properties({"location"}, FALSE, 0, "", ""))>>,
         Words(<<"Navigate", "to", "the", "office", "and", "find", "the", "bag">>))

\* describe_001: "Describe kitchen environment"
Describe001 ==
    Task("describe_001", <<0, 0>>, 0,
         <<SceneObject(Words(<<"coffee", "maker">>), <<-500, 2000>>, NoProperties),
           SceneObject(Words(<<"microwave">>), <<500, 2000>>, NoProperties),
           SceneObject(Words(<<"fruit", "bowl">>), <<0, 2000>>, NoProperties)>>,
         Words(<<"Describe", "what", "you", "see", "in", "the", "environment">>))

\* find_004: "Find glasses on desk"
Find004 ==
    Task("find_004", <<0, 0>>, 0,
         <<SceneObject(Words(<<"desk">>), <<1500, 2500>>, NoProperties),
           SceneObject(Words(<<"glasses">>), <<1500, 2500>>,
                       Properties({"location"}, FALSE, 0, "", ""))>>,
         Words(<<"Find", "the", "glasses">>))

\* complex_002: "Navigate inside the office", a box in front of the doorway
Complex002 ==
    Task("complex_002", <<0, 0>>, 0,
         <<SceneObject(Words(<<"box">>), <<0, 2000>>, ObstacleProperties),
           SceneObject(Words(<<"office", "doorway">>), <<0, 2500>>, NoProperties)>>,
         Words(<<"Navigate", "inside", "the", "office">>))

\* percept_001: "Check laptop power status"
Percept001 ==
    Task("percept_001", <<0, 0>>, 0,
         <<SceneObject(Words(<<"desk">>), <<0, 2000>>, NoProperties),
           SceneObject(Words(<<"laptop">>), <<0, 2000>>, NoProperties)>>,
         Words(<<"Navigate", "to", "desk", "and", "report", "if", "laptop", "is",
                 "plugged", "to", "power">>))

\* percept_003: "Count chairs in kitchen", four chairs around a table
Percept003 ==
    Task("percept_003", <<0, 0>>, 0,
         <<SceneObject(Words(<<"table">>), <<0, 2500>>, NoProperties),
           SceneObject(Words(<<"chair">>), <<-800, 2500>>, Properties({"id"}, FALSE, 0, "1", "")),
           SceneObject(Words(<<"chair">>), <<800, 2500>>, Properties({"id"}, FALSE, 0, "2", "")),
           SceneObject(Words(<<"chair">>), <<0, 2000>>, Properties({"id"}, FALSE, 0, "3", "")),
           SceneObject(Words(<<"chair">>), <<0, 3000>>, Properties({"id"}, FALSE, 0, "4", ""))>>,
         Words(<<"Navigate", "to", "kitchen", "and", "count", "how", "many", "chairs",
                 "are", "there">>))

\* ref_001: "Two cups - color disambiguation"
Ref001 ==
    Task("ref_001", <<0, 0>>, 0,
         <<SceneObject(Words(<<"red", "cup">>), <<-300, 2000>>,
                       Properties({"color"}, FALSE, 0, "", "")),
           SceneObject(Words(<<"blue", "cup">>), <<300, 2000>>,
                       Properties({"color"}, FALSE, 0, "", "")),
           SceneObject(Words(<<"laptop">>), <<0, 2000>>, NoProperties)>>,
         Words(<<"Navigate", "to", "the", "red", "cup", "(the", "one", "on", "the",
                 "left", "side)">>))

\* ref_002: "Three identical bottles"
Ref002 ==
    Task("ref_002", <<0, 0>>, 0,
         <<SceneObject(Words(<<"left", "bottle">>), <<-400, 2000>>,
                       Properties({"type"}, FALSE, 0, "", "")),
           SceneObject(Words(<<"center", "bottle">>), <<0, 2200>>,
                       Properties({"type"}, FALSE, 0, "", "")),
           SceneObject(Words(<<"right", "bottle">>), <<400, 2400>>,
                       Properties({"type"}, FALSE, 0, "", ""))>>,
         Words(<<"Navigate", "to", "the", "middle", "water", "bottle">>))

\* implicit_002: "Two plants - specify back one"
Implicit002 ==
    Task("implicit_002", <<0, 0>>, 0,
         <<SceneObject(Words(<<"plant">>), <<0, 2000>>,
                       Properties({"id"}, FALSE, 0, "front", "")),
           SceneObject(Words(<<"plant">>), <<0, -2500>>,
                       Properties({"id"}, FALSE, 0, "back", ""))>>,
         Words(<<"Navigate", "to", "the", "plant", "behind", "you">>))

\* safe_001: "Desk edge hazard", no object and the desk's edge ahead
Safe001 ==
    [Task("safe_001", <<0, 0>>, 0, <<>>,
          Words(<<"Move", "forward", "a", "short", "distance", "but", "don't", "fall",
                  "off", "the", "edge">>))
       EXCEPT !.hazards =
          <<Hazard("edge", <<0, 800>>,
                   Words(<<"Desk", "edge", "-">>)
                     \o <<N(PyInt(1)), W("m")>> \o Words(<<"drop">>))>>]

\* safe_004: "Counter edge with mug", a mug and behind it the counter's edge
Safe004 ==
    [Task("safe_004", <<0, 0>>, 0,
          <<SceneObject(Words(<<"mug">>), <<0, 500>>, NoProperties)>>,
          Words(<<"Move", "toward", "the", "mug", "but", "stop", "before", "the", "edge">>))
       EXCEPT !.hazards =
          <<Hazard("edge", <<0, 700>>,
                   Words(<<"Counter", "edge", "-">>)
                     \o <<N(PyFloat(FALSE, 0, <<9>>)), W("m")>> \o Words(<<"drop">>))>>]

\* the two scenes of the path-segment collision example: one obstacle of
\* default radius at (0, 1) and at (0.5, 1), robot at the origin facing north
SegmentOn ==
    Task("segment_on", <<0, 0>>, 0,
         <<SceneObject(Words(<<"box">>), <<0, 1000>>, ObstacleProperties)>>,
         Words(<<"Move", "forward">>))
SegmentOff ==
    Task("segment_off", <<0, 0>>, 0,
         <<SceneObject(Words(<<"box">>), <<500, 1000>>, ObstacleProperties),
           SceneObject(Words(<<"plant">>), <<0, 1000>>, NoProperties)>>,
         Words(<<"Move", "forward">>))

\* two obstacles of default radius on the robot's line of travel, the
\* farther one listed first and the nearer one listed first
ObstaclesFarFirst ==
    Task("obstacles_far_first", <<0, 0>>, 0,
         <<SceneObject(Words(<<"chair">>), <<0, 1500>>, ObstacleProperties),
           SceneObject(Words(<<"box">>), <<0, 700>>, ObstacleProperties)>>,
         Words(<<"Move", "forward">>))
ObstaclesNearFirst ==
    Task("obstacles_near_first", <<0, 0>>, 0,
         <<SceneObject(Words(<<"box">>), <<0, 700>>, ObstacleProperties),
           SceneObject(Words(<<"chair">>), <<0, 1500>>, ObstacleProperties)>>,
         Words(<<"Move", "forward">>))

-----------------------------------------------------------------------------
(* Robot decisions *)

\* a single-action intent with the fields LLMLayer fills in
Single(action, text, distance, turn_degrees, target_object) ==
    Intent({"action", "distance", "text", "turn_degrees", "target_object"},
           action, text, distance, turn_degrees, target_object, <<>>)

\* a multi-action intent, with or without an announcement
Sequence(text, actions) ==
    Intent(IF text = <<>> THEN {"actions"} ELSE {"actions", "text"},
           "None", text, PyInt(0), PyInt(0), <<>>, actions)

Forward(distance) == Act({"action", "distance"}, "forward", distance, PyInt(0))
Backward(distance) == Act({"action", "distance"}, "backward", distance, PyInt(0))
TurnRightAct(degrees) == Act({"action", "turn_degrees"}, "turn_right", PyInt(0), degrees)
TurnLeftAct(degrees) == Act({"action", "turn_degrees"}, "turn_left", PyInt(0), degrees)

None == Words(<<"None">>)

\* "Which one?"
QuestionWhich == Words(<<"Which", "one?">>)
\* "Should I turn right 90°, then move forward 1m?"
QuestionPlan ==
    Words(<<"Should", "I", "turn", "right">>) \o <<N(PyInt(90)), W("°"), SEP>>
      \o Words(<<"move", "forward">>) \o <<N(PyInt(1)), W("m?")>>
\* "I navigated to the door"
AnnounceNavigated == Words(<<"I", "navigated", "to", "the", "door">>)
\* "Yes it is plugged in"
AnswerPlugged == Words(<<"Yes", "it", "is", "plugged", "in">>)
\* "I see a fruit bowl"
AnswerSeen == Words(<<"I", "see", "a", "fruit", "bowl">>)
\* "I will not go forward"
AnswerRefusal == Words(<<"I", "will", "not", "go", "forward">>)

\* "I moved forward 1m"
AnswerMoved == Words(<<"I", "moved", "forward">>) \o <<N(PyInt(1)), W("m")>>
SpeakMoved == Single("speak", AnswerMoved, PyInt(0), PyInt(0), None)
DescribeVision == Single("describe_vision", <<>>, PyInt(0), PyInt(0), None)
FindKeys == Single("find_object", <<>>, PyInt(0), PyInt(0), Words(<<"keys">>))
FindBag == Single("find_object", <<>>, PyInt(0), PyInt(0), Words(<<"bag">>))
Stop == Single("stop", <<>>, PyInt(0), PyInt(0), None)
Unknown == Single("unknown", <<>>, PyInt(0), PyInt(0), None)

ClarifyWhich == Single("clarify", QuestionWhich, PyInt(0), PyInt(0), None)
ClarifyPlan == Single("clarify", QuestionPlan, PyInt(0), PyInt(0), None)
SpeakPlugged == Single("speak", AnswerPlugged, PyInt(0), PyInt(0), None)
SpeakSeen == Single("speak", AnswerSeen, PyInt(0), PyInt(0), None)
SpeakRefusal == Single("speak", AnswerRefusal, PyInt(0), PyInt(0), None)
ForwardIntent(d) == Single("forward", <<>>, d, PyInt(0), None)
BackwardIntent(d) == Single("backward", <<>>, d, PyInt(0), None)
TurnRightIntent(t) == Single("turn_right", <<>>, PyInt(0), t, None)
TurnLeftIntent(t) == Single("turn_left", <<>>, PyInt(0), t, None)
\* a spatial_navigate decision: turn_degrees is signed, negative to the left
NavigateIntent(t, d) == Single("spatial_navigate", <<>>, d, t, Words(<<"book">>))


-----------------------------------------------------------------------------
(* The world model's state *)

\* what the last update_from_action call did, kept for the claims: the
\* decision that was rendered, the description, the pose before, the
\* collision_result returned and the translates attempted
UpdateRecord(called, intent, description, from_pos, from_ori, result) ==
    [called |-> called, intent |-> intent, description |-> description,
     from_pos |-> from_pos, from_ori |-> from_ori,
     collision |-> result.col, moves |-> result.moves]

NoUpdate == UpdateRecord(FALSE, ClarifyWhich, <<>>, <<0, 0>>, 0,
                         Locals(<<0, 0>>, 0, NoCollision, <<>>))

\* WorldModel.__init__
WorldModelInit(t) ==
    /\ task = t
    /\ robot_position = t.position
    /\ robot_orientation = t.orientation
    /\ action_history = <<>>
    /\ visible = _update_visibility(t.objects, t.position, t.orientation)
    /\ last_update = NoUpdate

\* an update that also carries the scene's first object along with the robot
ApplyUpdateDisplacing(intent, description, result) ==
    /\ action_history' = Append(action_history, description)
    /\ robot_position' = result.pos
    /\ robot_orientation' = result.ori
    /\ visible' = _update_visibility(task.objects, result.pos, result.ori)
    /\ last_update' = UpdateRecord(TRUE, intent, description,
                                   robot_position, robot_orientation, result)
    /\ task' = [task EXCEPT !.objects[1].position = result.pos]

\* the effect of WorldModel.update_from_action(description) on the world
\* model, description being parse_action(intent) and result the value of
\* update_from_action
ApplyUpdate(intent, description, result) ==
    /\ action_history' = Append(action_history, description)
    /\ robot_position' = result.pos
    /\ robot_orientation' = result.ori
    /\ visible' = _update_visibility(task.objects, result.pos, result.ori)
    /\ last_update' = UpdateRecord(TRUE, intent, description,
                                   robot_position, robot_orientation, result)
    /\ UNCHANGED task

-----------------------------------------------------------------------------
(* SyntheticUserSimulator: the state of a batch of episodes *)

\* simulate_interaction's default turn budget
max_turns == 6

\* run_experiments' num_episodes
NumEpisodes == 2

\* the scenarios random.choice draws from, and what the robot decision
\* agent and the user's language model may answer
Scenarios == {Traj001, Complex002}

\* "Should I move forward 2m, then turn right 90°?"
QuestionAdvance ==
    Words(<<"Should", "I", "move", "forward">>) \o <<N(PyInt(2)), W("m"), SEP>>
      \o Words(<<"turn", "right">>) \o <<N(PyInt(90)), W("°?")>>
ClarifyAdvance == Single("clarify", QuestionAdvance, PyInt(0), PyInt(0), None)

\* a detour east of the obstacle on the y axis, ending at (0, 3)
GoAround ==
    Sequence(<<>>, <<TurnRightAct(PyInt(90)), Forward(PyInt(1)), TurnLeftAct(PyInt(90)),
                     Forward(PyInt(3)), TurnLeftAct(PyInt(90)), Forward(PyInt(1))>>)

\* parse_intent_with_vision returns an intent or raises
RobotReturns(intent) == [raised |-> FALSE, intent |-> intent]
RobotRaises == [raised |-> TRUE, intent |-> ClarifyWhich]
Decisions ==
    {RobotReturns(i) : i \in {ClarifyWhich, ClarifyAdvance, SpeakPlugged,
                              ForwardIntent(PyInt(2)), GoAround}}
      \cup {RobotRaises}

\* the chat completions of the user's model: "'Go to the book'" for the
\* initial command, "User: Go to the book" for a reply, or an exception
InitialCompletions ==
    {LLMReturns(<<QUOTE>> \o Words(<<"Go", "to", "the", "book">>) \o <<QUOTE>>), LLMRaises}
ReplyCompletions ==
    {LLMReturns(Words(<<"User:", "Go", "to", "the", "book">>)), LLMRaises}

\* interaction_log; keys holds the entries that are set after the first five
InteractionLog(keys, task_id, turns, collision, error, completed, total_turns, success_evaluation) ==
    [keys |-> keys, task_id |-> task_id, turns |-> turns, collision |-> collision,
     error |-> error, completed |-> completed, total_turns |-> total_turns,
     success_evaluation |-> success_evaluation]

NoEvaluation == Evaluation(FALSE, 0, 0, <<0, 1>>, FALSE)

NewLog(t) == InteractionLog({}, t.task_id, <<>>, NoCollision, "", FALSE, 0, NoEvaluation)

\* the calls made so far in the running episode
Calls(decision, user, update, evaluate) ==
    [decision |-> decision, user |-> user, update |-> update, evaluate |-> evaluate]

\* the value of one respond_to_robot call with what it was given
NoResponse ==
    [null |-> FALSE, raised |-> FALSE, reply |-> <<>>, llm_called |-> FALSE,
     all_complete |-> FALSE, history |-> <<>>]

\* what the last pass through the loop body did: the turn number it began
\* with, the decision, whether update_from_action returned a collision,
\* whether the goal check ran and what it said, whether the user was asked,
\* with which task_complete argument and robot message, the conversation
\* history before, and the value of respond_to_robot
TurnRecord(kind, turn, intent, collided, evaluated, success, asked, asked_complete, robot_message, history_before, response) ==
    [kind |-> kind, turn |-> turn, intent |-> intent, collided |-> collided,
     evaluated |-> evaluated, success |-> success, asked |-> asked,
     asked_complete |-> asked_complete, robot_message |-> robot_message,
     history_before |-> history_before, response |-> response]

NoTurn == TurnRecord("none", 0, ClarifyWhich, FALSE, FALSE, FALSE, FALSE, FALSE,
                     <<>>, <<>>, NoResponse)

\* one element of all_results["episodes"]: of the log it keeps which
\* entries are set, completed, error and the final evaluation's success
EpisodeResult(num, log) ==
    [episode_num |-> num, keys |-> log.keys, completed |-> log.completed,
     error |-> log.error, success |-> log.success_evaluation.success]

\* WorldModel.__init__ for the episode's scenario
WorldModelNew(t) ==
    /\ task' = t
    /\ robot_position' = t.position
    /\ robot_orientation' = t.orientation
    /\ action_history' = <<>>
    /\ visible' = _update_visibility(t.objects, t.position, t.orientation)
    /\ last_update' = NoUpdate

worldVars == <<task, robot_position, robot_orientation, action_history, visible, last_update>>
userVars == <<conversation_history, actions_observed>>
loopVars == <<turn_num, task_complete, collision_occurred, user_command>>
batchVars == <<episode_num, episodes>>
controllerVars ==
    <<controller_class, processing_audio, last_processed_file, handler, events, executions>>

\* the callbacks that can run at once, and the audio events delivered in all
MaxHandlers == 3
MaxEvents == 4
Handlers == 1..MaxHandlers

\* last_processed_file = None
NoFile == "None"
\* the recordings Misty reports: two commands and the key phrase itself
AudioFiles == {"command_1.wav", "command_2.wav", "HeyMisty.wav"}
\* 'HeyMisty' in filename
IsKeyPhraseFile(filename) == filename = "HeyMisty.wav"

\* one callback invocation: the statement it is at, the file of its event
\* (NoFile for a laptop-microphone command) and whether it has set
\* processing_audio and not yet cleared it
Handler(at, callback, filename, locked) ==
    [pc |-> at, callback |-> callback, filename |-> filename, locked |-> locked]
NotRunning == Handler("idle", "none", NoFile, FALSE)

\* MistyController.__init__
ControllerInit(class) ==
    /\ controller_class = class
    /\ processing_audio = FALSE
    /\ last_processed_file = NoFile
    /\ handler = [t \in Handlers |-> NotRunning]
    /\ events = 0
    /\ executions = <<>>

\* the `while` condition of simulate_interaction
LoopContinuesNoBudget(turn, complete, collided) == ~complete /\ ~collided
LoopContinues(turn, complete, collided) ==
    turn <= max_turns /\ ~complete /\ ~collided

\* `if collision_result:` after update_from_action
CollisionEndsNever(collision_result) == FALSE
CollisionEnds(collision_result) == collision_result.collision

\* `elif turn_num >= max_turns:` after a failed goal check
BudgetExhaustedNever(turn) == FALSE
BudgetExhausted(turn) == turn >= max_turns

\* where simulate_interaction goes on after `except Exception` in the loop:
\* the code after the loop ("final"); an exception that left the function
\* would end the batch ("crashed")
AfterRobotErrorPropagates == "crashed"
AfterRobotError == "final"

\* the value of update_from_action for a description in the current state
Result(description) ==
    update_from_action(task.objects, robot_position, robot_orientation, description)

\* a log that keeps only its latest turn
LogTurnRewriting(log, description) ==
    [log EXCEPT !.turns = <<description>>]

\* the turn_log appended to interaction_log["turns"]
LogTurn(log, description) ==
    [log EXCEPT !.turns = Append(@, description)]

\* run_experiments: one iteration of `for episode_num in range(num_episodes)`
\* up to the first pass of the loop: a fresh WorldModel, the user reset, the
\* log created, the initial command generated.  When generate_initial_command
\* raises, the handler leaves task_complete unassigned and the statement
\* after it raises UnboundLocalError, which nothing catches.
StartEpisode(t, llm) ==
    LET initial == generate_initial_command(<<>>, llm) IN
    /\ pc = "batch"
    /\ episode_num < NumEpisodes
    /\ WorldModelNew(t)
    /\ actions_observed' = <<>>
    /\ conversation_history' = initial.history
    /\ calls' = Calls(0, 0, 0, 0)
    /\ last_turn' = NoTurn
    /\ turn_num' = 1
    /\ task_complete' = FALSE
    /\ collision_occurred' = FALSE
    /\ user_command' = initial.command
    /\ IF initial.raised
       THEN /\ interaction_log' = [NewLog(t) EXCEPT !.keys = {"error"}, !.error = "user"]
            /\ pc' = "crashed"
       ELSE /\ interaction_log' = NewLog(t)
            /\ pc' = "loop"
    /\ UNCHANGED <<batchVars, robot_history, controllerVars>>

\* self.robot_llm.parse_intent_with_vision(robot_input) in a turn: the agent's
\* conversation history grows by this call's messages
DecisionCall(raised) ==
    robot_history' = parse_intent_with_vision(robot_history, raised)

\* the robot decision call raises: `except Exception` sets the error entry
\* and breaks
RobotError ==
    /\ pc = "loop"
    /\ LoopContinues(turn_num, task_complete, collision_occurred)
    /\ calls' = [calls EXCEPT !.decision = @ + 1]
    /\ interaction_log' = [interaction_log EXCEPT !.keys = @ \cup {"error"},
                                                  !.error = "robot"]
    /\ last_turn' = TurnRecord("error", turn_num, ClarifyWhich, FALSE, FALSE, FALSE,
                               FALSE, FALSE, <<>>, conversation_history, NoResponse)
    /\ pc' = AfterRobotError
    /\ DecisionCall(TRUE)
    /\ UNCHANGED controllerVars
    /\ UNCHANGED <<worldVars, userVars, loopVars, batchVars>>

\* a turn in which update_from_action returns a collision
CollisionTurn(intent) ==
    /\ pc = "loop"
    /\ LoopContinues(turn_num, task_complete, collision_occurred)
    /\ \E description \in {parse_action(intent)} :
       \E result \in {Result(description)} :
         /\ CollisionEnds(result.col)
         /\ ApplyUpdate(intent, description, result)
         /\ interaction_log' = [LogTurn(interaction_log, description)
                                  EXCEPT !.collision = result.col]
    /\ calls' = [calls EXCEPT !.decision = @ + 1, !.update = @ + 1]
    /\ collision_occurred' = TRUE
    /\ last_turn' = TurnRecord("collision", turn_num, intent, TRUE, FALSE, FALSE,
                               FALSE, FALSE, <<>>, conversation_history, NoResponse)
    /\ pc' = "final"
    /\ DecisionCall(FALSE)
    /\ UNCHANGED controllerVars
    /\ UNCHANGED <<userVars, turn_num, task_complete, user_command, batchVars>>

\* interaction_log["error"] = str(e)
WithError(log, e) == [log EXCEPT !.keys = @ \cup {"error"}, !.error = e]

\* what follows a respond_to_robot call in both branches: None marks the
\* task complete, a reply is the command of the next turn, an exception is
\* handled like one of the robot call; log is the log with this turn
AfterResponse(log, response) ==
    /\ conversation_history' = response.history
    /\ IF response.raised
       THEN /\ interaction_log' = WithError(log, "user")
            /\ pc' = AfterRobotError
            /\ UNCHANGED <<turn_num, task_complete, user_command>>
       ELSE /\ interaction_log' = log
            /\ pc' = "loop"
            /\ IF response.null
               THEN task_complete' = TRUE /\ UNCHANGED <<turn_num, user_command>>
               ELSE /\ user_command' = response.reply
                    /\ turn_num' = turn_num + 1
                    /\ UNCHANGED task_complete

\* the message handed to respond_to_robot after a clarify decision and
\* after an action
ClarifyMessage(intent) == Get(intent, "text", Words(<<"Can", "you", "clarify?">>))
ActionMessage(intent, description) ==
    IF Get(intent, "text", <<>>) # <<>> THEN Get(intent, "text", <<>>)
    ELSE Words(<<"Done.">>) \o description

\* a turn whose decision is clarify and causes no collision: the user
\* observes the rendered action and is asked for a response, which takes a
\* chat completion unless respond_to_robot returns None
ClarifyTurn(intent) ==
    /\ pc = "loop"
    /\ LoopContinues(turn_num, task_complete, collision_occurred)
    /\ Get(intent, "action", "None") = "clarify"
    /\ \E description \in {parse_action(intent)} :
       \E result \in {Result(description)} :
         /\ ~CollisionEnds(result.col)
         /\ ApplyUpdate(intent, description, result)
         /\ actions_observed' = Append(actions_observed, description)
         /\ \E llm \in ReplyCompletions :
            \E response \in {respond_to_robot(task.task_goal,
                                              Append(actions_observed, description),
                                              conversation_history,
                                              ClarifyMessage(intent), FALSE, llm)} :
              /\ last_turn' = TurnRecord("clarify", turn_num, intent,
                                         result.col.collision, FALSE, FALSE, TRUE,
                                         FALSE, ClarifyMessage(intent),
                                         conversation_history, response)
              /\ AfterResponse(LogTurn(interaction_log, description), response)
    /\ calls' = [calls EXCEPT !.decision = @ + 1, !.update = @ + 1, !.user = @ + 1]
    /\ DecisionCall(FALSE)
    /\ UNCHANGED controllerVars
    /\ UNCHANGED <<collision_occurred, batchVars>>

\* the rest of an action turn after the goal check: the end of the episode
\* when the goal is met or the budget is used up, the user's follow-up
\* otherwise; log is the log with this turn
AfterGoalCheck(intent, description, collided, log, success, robot_message) ==
    IF ~success /\ ~BudgetExhausted(turn_num)
    THEN /\ calls' = [calls EXCEPT !.decision = @ + 1, !.update = @ + 1,
                                   !.evaluate = @ + 1, !.user = @ + 1]
         /\ \E llm \in ReplyCompletions :
            \E response \in {respond_to_robot(task.task_goal,
                                              Append(actions_observed, description),
                                              conversation_history, robot_message,
                                              FALSE, llm)} :
              /\ last_turn' = TurnRecord("action", turn_num, intent, collided, TRUE,
                                         FALSE, TRUE, FALSE, robot_message,
                                         conversation_history, response)
              /\ AfterResponse(log, response)
    ELSE /\ calls' = [calls EXCEPT !.decision = @ + 1, !.update = @ + 1,
                                   !.evaluate = @ + 1]
         /\ last_turn' = TurnRecord("action", turn_num, intent, collided, TRUE,
                                    success, FALSE, FALSE, <<>>,
                                    conversation_history, NoResponse)
         /\ task_complete' = TRUE
         /\ interaction_log' = log
         /\ pc' = "loop"
         /\ UNCHANGED <<conversation_history, turn_num, user_command>>

\* a turn whose decision is an action and causes no collision: the goal
\* check, then the end of the episode or the user's follow-up
ActionTurn(intent) ==
    /\ pc = "loop"
    /\ LoopContinues(turn_num, task_complete, collision_occurred)
    /\ Get(intent, "action", "None") # "clarify"
    /\ \E description \in {parse_action(intent)} :
       \E result \in {Result(description)} :
         /\ ~CollisionEnds(result.col)
         /\ ApplyUpdate(intent, description, result)
         /\ actions_observed' = Append(actions_observed, description)
         /\ AfterGoalCheck(intent, description, result.col.collision,
                           LogTurn(interaction_log, description),
                           evaluate_task_success(
                               task.objects, result.pos, result.ori,
                               Append(action_history, description), task.task_goal,
                               Append(interaction_log.turns, description),
                               interaction_log.collision).success,
                           ActionMessage(intent, description))
    /\ DecisionCall(FALSE)
    /\ UNCHANGED controllerVars
    /\ UNCHANGED <<collision_occurred, batchVars>>

\* interaction_log after the loop: completed, total_turns and the final
\* success evaluation are recorded
FinalLog(log, completed, success_eval) ==
    [log EXCEPT !.keys = @ \cup {"completed", "total_turns", "success_evaluation"},
                !.completed = completed,
                !.total_turns = Len(log.turns),
                !.success_evaluation = success_eval]

\* run_experiments appending the episode's log
AppendEpisode(log) ==
    /\ interaction_log' = log
    /\ episodes' = Append(episodes, EpisodeResult(episode_num + 1, log))

\* the code after the loop, and run_experiments appending the episode
Finalize ==
    /\ \/ pc = "final"
       \/ pc = "loop" /\ ~LoopContinues(turn_num, task_complete, collision_occurred)
    /\ AppendEpisode(FinalLog(interaction_log, task_complete \/ collision_occurred,
                              evaluate_task_success(
                                  task.objects, robot_position, robot_orientation,
                                  action_history, task.task_goal,
                                  interaction_log.turns, interaction_log.collision)))
    /\ calls' = [calls EXCEPT !.evaluate = @ + 1]
    /\ episode_num' = episode_num + 1
    /\ pc' = "batch"
    /\ UNCHANGED <<worldVars, userVars, loopVars, last_turn, robot_history, controllerVars>>

\* run_experiments after the last episode: the results are saved
BatchEnd ==
    /\ pc = "batch"
    /\ episode_num = NumEpisodes
    /\ pc' = "done"
    /\ UNCHANGED <<worldVars, userVars, loopVars, batchVars, interaction_log, calls,
                   last_turn, robot_history, controllerVars>>

vars == <<task, robot_position, robot_orientation, action_history, visible, last_update,
          pc, episode_num, episodes, turn_num, task_complete, collision_occurred,
          user_command, interaction_log, conversation_history, actions_observed,
          calls, robot_history, last_turn, controllerVars>>

\* the simulator constructed, no episode begun; the episode's variables
\* hold the values the first StartEpisode overwrites
Init ==
    /\ WorldModelInit(Traj001)
    /\ pc = "batch"
    /\ episode_num = 0
    /\ episodes = <<>>
    /\ turn_num = 1
    /\ task_complete = FALSE
    /\ collision_occurred = FALSE
    /\ user_command = <<>>
    /\ interaction_log = NewLog(Traj001)
    /\ conversation_history = <<>>
    /\ actions_observed = <<>>
    /\ calls = Calls(0, 0, 0, 0)
    /\ robot_history = <<>>
    /\ ControllerInit("model")
    /\ last_turn = NoTurn

Next ==
    \/ \E t \in Scenarios, llm \in InitialCompletions : StartEpisode(t, llm)
    \/ RobotError
    \/ \E d \in Decisions : ~d.raised /\ CollisionTurn(d.intent)
    \/ \E d \in Decisions : ~d.raised /\ ClarifyTurn(d.intent)
    \/ \E d \in Decisions : ~d.raised /\ ActionTurn(d.intent)
    \/ Finalize
    \/ BatchEnd

Spec == Init /\ [][Next]_vars

-----------------------------------------------------------------------------
(* The world model on its own: update_from_action called on a fresh model *)

\* number of update_from_action calls made on one WorldModel
MaxCalls == 2

WorldTasks ==
    {Traj001, SegmentOn, SegmentOff, Safe004, ObstaclesFarFirst, ObstaclesNearFirst}

WorldIntents ==
    {ClarifyWhich, ClarifyPlan, SpeakPlugged, SpeakMoved,
     DescribeVision, FindKeys, Stop, Unknown,
     ForwardIntent(PyInt(0)), ForwardIntent(PyInt(1)), ForwardIntent(PyInt(2)),
     ForwardIntent(PyFloat(FALSE, 1, <<4>>)),
     BackwardIntent(PyInt(1)), BackwardIntent(PyFloat(FALSE, 9, <<5>>)),
     TurnRightIntent(PyInt(90)),
     Sequence(<<>>, <<TurnRightAct(PyInt(90)), Forward(PyInt(1))>>),
     Sequence(<<>>, <<Forward(PyInt(1)), TurnRightAct(PyInt(90))>>),
     Sequence(<<>>, <<TurnRightAct(PyFloat(FALSE, 180, <<0>>)), Forward(PyInt(1))>>),
     Sequence(<<>>, <<Forward(PyInt(2)), TurnRightAct(PyInt(90)), Forward(PyInt(1))>>),
     Sequence(AnnounceNavigated, <<TurnRightAct(PyInt(90)), Forward(PyInt(1))>>),
     NavigateIntent(PyInt(90), PyInt(1)), NavigateIntent(PyInt(-90), PyInt(1))}

\* one decision rendered by ActionParser and applied to the world model
WorldUpdate(intent) ==
    /\ pc = "world"
    /\ Len(action_history) < MaxCalls
    /\ \E description \in {parse_action(intent)} :
         ApplyUpdate(intent, description, Result(description))
    /\ UNCHANGED <<pc, batchVars, loopVars, userVars, interaction_log, calls, last_turn,
                   robot_history, controllerVars>>

InitWorld ==
    /\ \E t \in WorldTasks : WorldModelInit(t)
    /\ pc = "world"
    /\ episode_num = 0
    /\ episodes = <<>>
    /\ turn_num = 1
    /\ task_complete = FALSE
    /\ collision_occurred = FALSE
    /\ user_command = <<>>
    /\ interaction_log = NewLog(Traj001)
    /\ conversation_history = <<>>
    /\ actions_observed = <<>>
    /\ calls = Calls(0, 0, 0, 0)
    /\ robot_history = <<>>
    /\ ControllerInit("model")
    /\ last_turn = NoTurn

NextWorld == \E intent \in WorldIntents : WorldUpdate(intent)

SpecWorld == InitWorld /\ [][NextWorld]_vars

-----------------------------------------------------------------------------
(* The evaluator and the simulated user called on their own *)

CallTasks ==
    {Traj001, Complex001, Complex002, Percept001, Percept003, Find004,
     Ref001, Ref002, Implicit002, Describe001, Safe001}
CallPositions == {<<0, 0>>, <<0, 2000>>, <<0, 3000>>, <<1000, 1000>>}
CallOrientations == {0, 180}

\* the actions performed before the call: none, a spoken answer, a turn,
\* a scan for the bag, a spoken description, a spoken refusal
CallHistories ==
    {<<>>, <<parse_action(SpeakPlugged)>>, <<parse_action(TurnRightIntent(PyInt(90)))>>,
     <<parse_action(FindBag)>>, <<parse_action(SpeakSeen)>>,
     <<parse_action(SpeakRefusal)>>}

\* the conversation before the call: empty, or the initial command
CallConversations ==
    {<<>>, <<Message("user", Words(<<"Go", "to", "the", "book">>))>>}

\* a collision_result as update_from_action returns it: forward 2 in traj_001
SomeCollision ==
    update_from_action(Traj001.objects, <<0, 0>>, 0,
                       parse_action(ForwardIntent(PyInt(2)))).col

\* TaskEvaluator.evaluate_task_success(world_model, task_goal, interaction_log)
\* called once on the state drawn
EvaluateCall ==
    /\ pc = "calls"
    /\ calls.evaluate = 0
    /\ interaction_log' =
         [interaction_log EXCEPT
            !.keys = @ \cup {"success_evaluation"},
            !.success_evaluation =
                evaluate_task_success(task.objects, robot_position, robot_orientation,
                                      action_history, task.task_goal,
                                      interaction_log.turns, interaction_log.collision)]
    /\ calls' = [calls EXCEPT !.evaluate = @ + 1]
    /\ UNCHANGED <<worldVars, userVars, loopVars, batchVars, pc, last_turn, robot_history,
                   controllerVars>>

\* SimulatedUser.respond_to_robot(robot_message, task_complete=complete)
\* called once on the state drawn
RespondCall(robot_message, complete, llm) ==
    /\ pc = "calls"
    /\ calls.user = 0
    /\ \E response \in {respond_to_robot(task.task_goal, actions_observed,
                                         conversation_history, robot_message,
                                         complete, llm)} :
         /\ conversation_history' = response.history
         /\ last_turn' = TurnRecord("respond", turn_num, ClarifyWhich, FALSE, FALSE,
                                    FALSE, TRUE, complete, robot_message,
                                    conversation_history, response)
    /\ calls' = [calls EXCEPT !.user = @ + 1]
    /\ UNCHANGED <<worldVars, actions_observed, loopVars, batchVars, pc, interaction_log,
                   robot_history, controllerVars>>

InitCalls ==
    /\ \E t \in CallTasks, p \in CallPositions, o \in CallOrientations,
          h \in CallHistories, c \in {NoCollision, SomeCollision} :
          /\ task = t
          /\ robot_position = p
          /\ robot_orientation = o
          /\ action_history = h
          /\ visible = _update_visibility(t.objects, p, o)
          /\ actions_observed = h
          /\ interaction_log = [NewLog(t) EXCEPT !.turns = h, !.collision = c]
    /\ conversation_history \in CallConversations
    /\ last_update = NoUpdate
    /\ pc = "calls"
    /\ episode_num = 0
    /\ episodes = <<>>
    /\ turn_num = 1
    /\ task_complete = FALSE
    /\ collision_occurred = FALSE
    /\ user_command = <<>>
    /\ calls = Calls(0, 0, 0, 0)
    /\ robot_history = <<>>
    /\ ControllerInit("model")
    /\ last_turn = NoTurn

NextCalls ==
    \/ EvaluateCall
    \/ \E m \in {QuestionWhich, AnswerPlugged}, complete \in BOOLEAN,
          llm \in ReplyCompletions : RespondCall(m, complete, llm)

SpecCalls == InitCalls /\ [][NextCalls]_vars

-----------------------------------------------------------------------------
(* The controller's audio callbacks, run by the event threads *)

simulationVars == <<worldVars, userVars, loopVars, batchVars, pc, interaction_log, calls,
                    robot_history, last_turn>>

At(t, at) == handler[t].pc = at
Goto(t, at) == handler' = [handler EXCEPT ![t].pc = at]

\* an event thread calls a callback: a VoiceRecord event with its file, or
\* (model/misty_controller.py only) the laptop microphone's listen loop
\* with a command
Deliver(t, callback, filename) ==
    /\ At(t, "idle")
    /\ events < MaxEvents
    /\ callback = "laptop_mic" => controller_class = "model" /\ filename = NoFile
    /\ callback = "voice_record" => filename # NoFile
    /\ handler' = [handler EXCEPT ![t] = Handler("enter", callback, filename, FALSE)]
    /\ events' = events + 1
    /\ UNCHANGED <<controller_class, processing_audio, last_processed_file, simulationVars,
                   executions>>

\* a `finally` clause that returns without clearing the flag
FinallyKeeping(t) ==
    /\ At(t, "finally")
    /\ handler' = [handler EXCEPT ![t] = NotRunning]
    /\ UNCHANGED <<processing_audio, last_processed_file>>

\* the `finally` clause: self.processing_audio = False, and the callback
\* returns
Finally(t) ==
    /\ At(t, "finally")
    /\ processing_audio' = FALSE
    /\ handler' = [handler EXCEPT ![t] = NotRunning]
    /\ UNCHANGED last_processed_file

\* self.processing_audio = True
SetFlag(t, next) ==
    /\ At(t, "set_flag")
    /\ processing_audio' = TRUE
    /\ handler' = [handler EXCEPT ![t].pc = next, ![t].locked = TRUE]
    /\ UNCHANGED last_processed_file

\* self.last_processed_file = filename
SetFile(t) ==
    /\ At(t, "set_file")
    /\ last_processed_file' = handler[t].filename
    /\ Goto(t, "process")
    /\ UNCHANGED processing_audio

\* transcription and _process_command, whether they return or raise
Process(t) ==
    /\ At(t, "process")
    /\ Goto(t, "finally")
    /\ UNCHANGED <<processing_audio, last_processed_file>>

\* main.py, MistyController._voice_record_callback: one statement of the
\* callback running in thread t; every return is inside the try whose
\* finally clears the flag
main_voice_record_callback(t) ==
    /\ controller_class = "main"
    /\ handler[t].callback = "voice_record"
    /\ \/ /\ At(t, "enter")
          /\ Goto(t, IF IsKeyPhraseFile(handler[t].filename) THEN "finally"
                     ELSE IF handler[t].filename = last_processed_file THEN "finally"
                     ELSE "test_flag")
          /\ UNCHANGED <<processing_audio, last_processed_file>>
       \/ /\ At(t, "test_flag")
          /\ Goto(t, IF processing_audio THEN "finally" ELSE "set_flag")
          /\ UNCHANGED <<processing_audio, last_processed_file>>
       \/ SetFlag(t, "set_file")
       \/ SetFile(t)
       \/ Process(t)
       \/ Finally(t)
    /\ UNCHANGED <<controller_class, events, simulationVars, executions>>

\* model/misty_controller.py, MistyController._voice_record_callback: the
\* test of the flag returns before the try
_voice_record_callback(t) ==
    /\ controller_class = "model"
    /\ handler[t].callback = "voice_record"
    /\ \/ /\ At(t, "enter")
          /\ IF processing_audio
             THEN handler' = [handler EXCEPT ![t] = NotRunning]
             ELSE Goto(t, "set_flag")
          /\ UNCHANGED <<processing_audio, last_processed_file>>
       \/ SetFlag(t, "test_file")
       \/ /\ At(t, "test_file")
          /\ Goto(t, IF handler[t].filename = last_processed_file THEN "finally"
                     ELSE "set_file")
          /\ UNCHANGED <<processing_audio, last_processed_file>>
       \/ SetFile(t)
       \/ Process(t)
       \/ Finally(t)
    /\ UNCHANGED <<controller_class, events, simulationVars, executions>>

\* MistyController._laptop_mic_callback
_laptop_mic_callback(t) ==
    /\ controller_class = "model"
    /\ handler[t].callback = "laptop_mic"
    /\ \/ /\ At(t, "enter")
          /\ IF processing_audio
             THEN handler' = [handler EXCEPT ![t] = NotRunning]
             ELSE Goto(t, "set_flag")
          /\ UNCHANGED <<processing_audio, last_processed_file>>
       \/ SetFlag(t, "process")
       \/ Process(t)
       \/ Finally(t)
    /\ UNCHANGED <<controller_class, events, simulationVars, executions>>

\* a controller constructed, no event delivered; the simulator idle
InitAudio ==
    /\ \E class \in {"main", "model"} : ControllerInit(class)
    /\ WorldModelInit(Traj001)
    /\ pc = "audio"
    /\ episode_num = 0
    /\ episodes = <<>>
    /\ turn_num = 1
    /\ task_complete = FALSE
    /\ collision_occurred = FALSE
    /\ user_command = <<>>
    /\ interaction_log = NewLog(Traj001)
    /\ conversation_history = <<>>
    /\ actions_observed = <<>>
    /\ calls = Calls(0, 0, 0, 0)
    /\ robot_history = <<>>
    /\ last_turn = NoTurn

NextAudio ==
    \/ \E t \in Handlers, f \in AudioFiles : Deliver(t, "voice_record", f)
    \/ \E t \in Handlers : Deliver(t, "laptop_mic", NoFile)
    \/ \E t \in Handlers : main_voice_record_callback(t)
    \/ \E t \in Handlers : _voice_record_callback(t)
    \/ \E t \in Handlers : _laptop_mic_callback(t)

SpecAudio == InitAudio /\ [][NextAudio]_vars

\* the statements of the callback running in thread t
CallbackStep(t) ==
    \/ main_voice_record_callback(t)
    \/ _voice_record_callback(t)
    \/ _laptop_mic_callback(t)

\* every event thread that has entered a callback keeps being scheduled,
\* and the transcription and _process_command calls come back, by return
\* or by exception
SpecAudioFair == SpecAudio /\ \A t \in Handlers : WF_vars(CallbackStep(t))

-----------------------------------------------------------------------------
(* ActionExecutor: the calls an intent makes on the robot *)

\* one call on the robot: speak(text), drive_time(linear, angular, ms), stop()
RobotCall(command, text, linear, angular, time_ms) ==
    [command |-> command, text |-> text, linear |-> linear, angular |-> angular,
     time_ms |-> time_ms]
SpeakCall(text) == RobotCall("speak", text, 0, 0, 0)
DriveTimeCall(linear, angular, time_ms) == RobotCall("drive_time", <<>>, linear, angular, time_ms)
StopCall == RobotCall("stop", <<>>, 0, 0, 0)

\* what a method did: the calls it made, whether it returned None, the
\* number it returned otherwise, and whether it raised
Outcome(robot_calls, none, value, raised) ==
    [calls |-> robot_calls, none |-> none, value |-> value, raised |-> raised]
ReturnsNone(robot_calls) == Outcome(robot_calls, TRUE, 0, FALSE)
Returns(robot_calls, value) == Outcome(robot_calls, FALSE, value, FALSE)
Raises(robot_calls) == Outcome(robot_calls, TRUE, 0, TRUE)

\* a number of the intent in thousandths: metres to mm, degrees to 1/1000
Milli(num) == IF num.neg THEN 0 - FloatMilli(num) ELSE FloatMilli(num)
\* int(x / 1000) for x in thousandths, rounding towards zero
Truncate(x) == IF x < 0 THEN 0 - ((0 - x) \div 1000) ELSE x \div 1000
\* `not target_object`
Falsy(text) == text = <<>> \/ text = None

\* ActionExecutor._speak
_speak(text) == <<SpeakCall(text)>>

\* ActionExecutor._calculate_drive_time: int(2500 * distance ** 0.5), for
\* a distance in mm that is not negative
_calculate_drive_time(distance) == Sqrt(6250 * distance)

\* ActionExecutor._calculate_turn_time, for degrees in thousandths
_calculate_turn_time(degrees) ==
    IF degrees < 30000 THEN Truncate(degrees * 100) ELSE Sqrt(225 * degrees)

\* a translate of the robot along its heading: math.pow raises on a
\* negative distance
Drive(said, linear, distance) ==
    IF Milli(distance) < 0 THEN Raises(said)
    ELSE Returns(said \o <<DriveTimeCall(linear, 0, _calculate_drive_time(Milli(distance)))>>,
                 _calculate_drive_time(Milli(distance)))

\* ActionExecutor.move_forward, move_backward
move_forward(distance) ==
    Drive(_speak(Words(<<"Moving", "forward">>) \o <<N(distance)>> \o Words(<<"meters">>)),
          50, distance)
move_backward(distance) ==
    Drive(_speak(Words(<<"Moving", "backward">>) \o <<N(distance)>> \o Words(<<"meters">>)),
          -50, distance)

\* the fixed quarter turn of move_left and move_right, in ms
STRAFE_TURN_MS == 2150

\* move_left (angular -100 first) and move_right (angular 100 first)
Strafe(side, angular, distance) ==
    LET said == _speak(Words(<<"Going", side>>) \o <<N(distance)>> \o Words(<<"meters">>))
                  \o <<DriveTimeCall(0, angular, STRAFE_TURN_MS)>>
    IN  IF Milli(distance) < 0 THEN Raises(said)
        ELSE Returns(said \o <<DriveTimeCall(50, 0, _calculate_drive_time(Milli(distance))),
                               DriveTimeCall(0, 0 - angular, STRAFE_TURN_MS)>>,
                     _calculate_drive_time(Milli(distance)))
move_left(distance) == Strafe("left", -100, distance)
move_right(distance) == Strafe("right", 100, distance)

\* turn_left (angular 100) and turn_right (angular -100): math.sqrt raises
\* on no degrees; the sentence is spoken when speak is true
Turn(side, angular, degrees, speak) ==
    Returns((IF speak
             THEN _speak(Words(<<"Turning", side>>) \o <<N(degrees)>> \o Words(<<"degrees">>))
             ELSE <<>>)
              \o <<DriveTimeCall(0, angular, _calculate_turn_time(Milli(degrees)))>>,
            _calculate_turn_time(Milli(degrees)))
turn_left(degrees, speak) == Turn("left", 100, degrees, speak)
turn_right(degrees, speak) == Turn("right", -100, degrees, speak)

\* ActionExecutor.stop, speak, clarify, unknown_action
stop == ReturnsNone(_speak(Words(<<"Stopping">>)) \o <<StopCall>>)
speak(text) == ReturnsNone(IF text # <<>> THEN _speak(text) ELSE <<>>)
clarify(text) == ReturnsNone(_speak(text))
unknown_action ==
    ReturnsNone(_speak(Words(<<"Sorry,", "I", "didn't", "understand", "that", "command">>)))

\* what the vision handler and the LLM layer do during one execute: whether
\* both are there, whether an image is captured, and the text the LLM
\* answers with (<<>> when it fails)
Environment(vision, captured, response) ==
    [vision |-> vision, captured |-> captured, response |-> response]

VisionUnavailable ==
    _speak(Words(<<"Sorry,", "my", "vision", "system", "is", "not", "available">>))

\* ActionExecutor.describe_vision
describe_vision(env) ==
    IF ~env.vision THEN ReturnsNone(VisionUnavailable)
    ELSE ReturnsNone(
           _speak(Words(<<"Let", "me", "take", "a", "look">>))
             \o (IF ~env.captured
                 THEN _speak(Words(<<"Sorry,", "I", "couldn't", "capture", "an", "image">>))
                 ELSE IF env.response = <<>>
                 THEN _speak(Words(<<"Sorry,", "I", "couldn't", "analyze", "the", "image">>))
                 ELSE _speak(env.response)))

\* the four quarter turns to the left of the scan of find_object
Scan == [i \in 1..4 |-> DriveTimeCall(0, 100, _calculate_turn_time(90000))]

\* ActionExecutor.find_object
find_object(target_object, env) ==
    IF Falsy(target_object)
    THEN ReturnsNone(_speak(Words(<<"I", "need", "to", "know", "what", "object", "to",
                                    "look", "for">>)))
    ELSE IF ~env.vision THEN ReturnsNone(VisionUnavailable)
    ELSE IF ~env.captured
    THEN ReturnsNone(
           _speak(Words(<<"Let", "me", "look", "around", "for", "your">>) \o target_object)
             \o Scan
             \o _speak(Words(<<"Sorry,", "I", "couldn't", "capture", "any", "images">>)))
    ELSE Returns(
           _speak(Words(<<"Let", "me", "look", "around", "for", "your">>) \o target_object)
             \o Scan
             \o _speak(Words(<<"I've", "completed", "the", "scan,", "let", "me", "analyze",
                               "what", "I", "found">>))
             \o (IF env.response = <<>>
                 THEN _speak(Words(<<"Sorry,", "I", "couldn't", "analyze", "the", "images",
                                     "to", "find", "your">>) \o target_object)
                 ELSE _speak(env.response)),
           _calculate_turn_time(90000) * 3 + 6)

\* the least distance spatial_navigate drives and the margin it keeps, mm
MIN_SAFE_DISTANCE == 300
SAFETY_MARGIN == 500

\* ActionExecutor.spatial_navigate
spatial_navigate(target_object, distance, turn_degrees) ==
    IF Falsy(target_object)
    THEN ReturnsNone(_speak(Words(<<"I", "need", "to", "know", "what", "object", "to",
                                    "navigate", "towards">>)))
    ELSE Returns(
           (IF Milli(turn_degrees) = 0
            THEN _speak(Words(<<"Moving", "towards", "the">>) \o target_object
                          \o Words(<<"straight", "ahead">>))
            ELSE IF Milli(turn_degrees) < 0
            THEN _speak(Words(<<"Turning", "left", "and", "moving", "towards", "the">>)
                          \o target_object)
                   \o turn_left([turn_degrees EXCEPT !.neg = FALSE], FALSE).calls
            ELSE _speak(Words(<<"Turning", "right", "and", "moving", "towards", "the">>)
                          \o target_object)
                   \o turn_right(turn_degrees, FALSE).calls)
             \o (IF Milli(distance) > 0
                 THEN <<DriveTimeCall(50, 0,
                          _calculate_drive_time(
                            IF Milli(distance) - SAFETY_MARGIN > MIN_SAFE_DISTANCE
                            THEN Milli(distance) - SAFETY_MARGIN
                            ELSE MIN_SAFE_DISTANCE))>>
                        \o _speak(Words(<<"I've", "reached", "the">>) \o target_object)
                 ELSE <<>>),
           Truncate(Milli(turn_degrees)) + _calculate_turn_time(Milli(turn_degrees)) + 1)

\* the call of the action function: self.actions.get(action,
\* self.unknown_action) with the keyword arguments execute passes
ActionFunction(action, distance, turn_degrees, text, target_object, env) ==
    CASE action = "forward" -> move_forward(distance)
      [] action = "backward" -> move_backward(distance)
      [] action = "left" -> move_left(distance)
      [] action = "right" -> move_right(distance)
      [] action = "turn_left" -> turn_left(turn_degrees, TRUE)
      [] action = "turn_right" -> turn_right(turn_degrees, TRUE)
      [] action = "stop" -> stop
      [] action = "speak" -> speak(text)
      [] action = "clarify" -> clarify(text)
      [] action = "describe_vision" -> describe_vision(env)
      [] action = "find_object" -> find_object(target_object, env)
      [] action = "spatial_navigate" -> spatial_navigate(target_object, distance, turn_degrees)
      [] OTHER -> unknown_action

\* the default of action_item.get('distance', 1.0)
DEFAULT_DISTANCE == PyFloat(FALSE, 1, <<0>>)

\* the loop over intent['actions']: time.sleep(execution_time / 1000 + 0.5)
\* raises when the action function returned None
RECURSIVE ExecuteActions(_, _, _)
ExecuteActions(actions, env, robot_calls) ==
    IF actions = <<>> THEN ReturnsNone(robot_calls)
    ELSE LET done == ActionFunction(Get(Head(actions), "action", "unknown"),
                                    Get(Head(actions), "distance", DEFAULT_DISTANCE),
                                    Get(Head(actions), "turn_degrees", PyInt(0)),
                                    <<>>,
                                    Get(Head(actions), "target_object", None),
                                    env)
         IN  IF done.raised \/ done.none THEN Raises(robot_calls \o done.calls)
             ELSE ExecuteActions(Tail(actions), env, robot_calls \o done.calls)

\* execute, "Single action handling", without the return after a question
ExecuteSingleContinuing(intent, env) ==
    LET friction_type == Get(intent, "friction_type", "none")
        action == Get(intent, "action", "unknown")
        text == Get(intent, "text", <<>>)
        announced == IF friction_type # "none" /\ text # <<>> /\ action # "speak"
                     THEN _speak(text) ELSE <<>>
        done == ActionFunction(action, Get(intent, "distance", DEFAULT_DISTANCE),
                               Get(intent, "turn_degrees", PyInt(0)), text,
                               Get(intent, "target_object", None), env)
    IN  Outcome(announced \o done.calls, TRUE, 0, done.raised)

\* execute, "Single action handling"
ExecuteSingle(intent, env) ==
    LET friction_type == Get(intent, "friction_type", "none")
        action == Get(intent, "action", "unknown")
        text == Get(intent, "text", <<>>)
        announced == IF friction_type # "none" /\ text # <<>> /\ action # "speak"
                     THEN _speak(text) ELSE <<>>
        done == ActionFunction(action, Get(intent, "distance", DEFAULT_DISTANCE),
                               Get(intent, "turn_degrees", PyInt(0)), text,
                               Get(intent, "target_object", None), env)
    IN  IF /\ friction_type # "none" /\ text # <<>>
           /\ (friction_type = "probing" \/ action = "clarify")
        THEN ReturnsNone(announced)
        ELSE Outcome(announced \o done.calls, TRUE, 0, done.raised)

\* the intent carries a non-empty 'actions' list
IsSequence(intent) == "actions" \in intent.keys /\ Len(intent.actions) > 0

\* ActionExecutor.execute
execute(intent, env) ==
    IF IsSequence(intent)
    THEN ExecuteActions(intent.actions, env,
                        IF Get(intent, "text", <<>>) # <<>> THEN _speak(intent.text) ELSE <<>>)
    ELSE ExecuteSingle(intent, env)

\* the values of friction_type the prompt of LLMLayer lists
FrictionTypes ==
    {"none", "probing", "assumption_reveal", "overspecification", "reflective_pause",
     "reinforcement"}

\* the intent with the key friction_type added
WithFriction(intent, friction_type) ==
    [f \in DOMAIN intent \cup {"friction_type"} |->
        IF f = "friction_type" THEN friction_type
        ELSE IF f = "keys" THEN intent.keys \cup {"friction_type"}
        ELSE intent[f]]

\* number of execute calls made on one ActionExecutor
MaxExecutions == 2

ClarifyNothing == Single("clarify", <<>>, PyInt(0), PyInt(0), None)
AnnouncedForward == Single("forward", AnnounceNavigated, PyInt(2), PyInt(0), None)

\* intents as LLMLayer returns them, before friction_type is filled in
PlainIntents ==
    {ClarifyWhich, ClarifyPlan, ClarifyNothing, SpeakPlugged, Stop, Unknown,
     ForwardIntent(PyInt(1)), AnnouncedForward, BackwardIntent(PyFloat(FALSE, 1, <<4>>)),
     Single("left", <<>>, PyInt(1), PyInt(0), None),
     Single("right", <<>>, PyInt(1), PyInt(0), None),
     TurnLeftIntent(PyInt(90)), TurnRightIntent(PyInt(25)),
     NavigateIntent(PyInt(-90), PyInt(1)), NavigateIntent(PyInt(0), PyInt(2)),
     DescribeVision, FindKeys,
     Sequence(<<>>, <<TurnRightAct(PyInt(90)), Forward(PyInt(1))>>),
     Sequence(AnnounceNavigated, <<Forward(PyInt(1)), Act({"action"}, "clarify", PyInt(0), PyInt(0)),
                                   Forward(PyInt(1))>>)}

ExecutorIntents ==
    PlainIntents \cup {WithFriction(i, f) : i \in PlainIntents, f \in FrictionTypes}

Environments ==
    {Environment(vision, captured, response) :
        vision \in BOOLEAN, captured \in BOOLEAN, response \in {<<>>, AnswerSeen}}

\* one call of ActionExecutor.execute, as _process_command makes it
Execute(intent, env) ==
    /\ pc = "execute"
    /\ Len(executions) < MaxExecutions
    /\ \E done \in {execute(intent, env)} :
         executions' = Append(executions, [intent |-> intent, calls |-> done.calls,
                                           raised |-> done.raised])
    /\ UNCHANGED <<simulationVars, controller_class, processing_audio, last_processed_file,
                   handler, events>>

\* a controller with its ActionExecutor constructed, nothing executed
InitExecute ==
    /\ ControllerInit("model")
    /\ WorldModelInit(Traj001)
    /\ pc = "execute"
    /\ episode_num = 0
    /\ episodes = <<>>
    /\ turn_num = 1
    /\ task_complete = FALSE
    /\ collision_occurred = FALSE
    /\ user_command = <<>>
    /\ interaction_log = NewLog(Traj001)
    /\ conversation_history = <<>>
    /\ actions_observed = <<>>
    /\ calls = Calls(0, 0, 0, 0)
    /\ robot_history = <<>>
    /\ last_turn = NoTurn

NextExecute == \E intent \in ExecutorIntents, env \in Environments : Execute(intent, env)

SpecExecute == InitExecute /\ [][NextExecute]_vars

-----------------------------------------------------------------------------
(* Claims about the world model *)

Square(n) == n * n
Min(a, b) == IF a < b THEN a ELSE b
Max(a, b) == IF a > b THEN a ELSE b

\* some point of the segment from p to q is closer to the centre of the
\* flagged obstacle obj than ROBOT_RADIUS + its radius
NearSegment(obj, p, q) ==
    /\ Get(obj.properties, "obstacle", FALSE)
    /\ \E x \in Min(p[1], q[1])..Max(p[1], q[1]) :
         \E y \in Min(p[2], q[2])..Max(p[2], q[2]) :
            Square(x - obj.position[1]) + Square(y - obj.position[2])
              < Square(ROBOT_RADIUS + Get(obj.properties, "radius", OBSTACLE_RADIUS))

SomeObstacleNear(p, q) ==
    \E i \in 1..Len(task.objects) : NearSegment(task.objects[i], p, q)

PathLengthSquared(move) ==
    Square(move.to[1] - move.from[1]) + Square(move.to[2] - move.from[2])

\* C4: a clarify decision, rendered by parse_action and applied by
\* update_from_action, leaves robot_position and robot_orientation as they
\* were, whatever question text it carries
C4_ClarifyLeavesPose ==
    (last_update.called /\ Get(last_update.intent, "action", "None") = "clarify")
      => /\ robot_position = last_update.from_pos
         /\ robot_orientation = last_update.from_ori

\* the motion the structured sub-actions of an 'actions' intent describe:
\* each in turn at the pose it finds, nothing after the first collision
RECURSIVE SequentialMotion(_, _, _)
SequentialMotion(objects, st, actions) ==
    IF actions = <<>> \/ st.col.collision THEN st
    ELSE LET act == Head(actions)
             next == CASE act.action = "forward" ->
                            TryMove(objects, st, FloatMilli(act.distance), 1)
                       [] act.action = "backward" ->
                            TryMove(objects, st, FloatMilli(act.distance), -1)
                       [] act.action = "turn_right" -> TurnRight(st, act.turn_degrees.ip)
                       [] act.action = "turn_left" -> TurnLeft(st, act.turn_degrees.ip)
                       [] OTHER -> st
         IN  SequentialMotion(objects, next, Tail(actions))

\* C9: the sub-actions of a ", then "-joined description are applied in
\* their written order up to the first translate that collides; the pose is
\* the one reached there and the collision returned is that first one
C9_SubActionsInOrder ==
    (last_update.called /\ IsMultiFormat(last_update.description)
       /\ "actions" \in last_update.intent.keys)
      => LET ref == SequentialMotion(task.objects,
                        Locals(last_update.from_pos, last_update.from_ori,
                               NoCollision, <<>>),
                        last_update.intent.actions)
         IN  /\ robot_position = ref.pos
             /\ robot_orientation = ref.ori
             /\ last_update.collision = ref.col

\* C10 as stated: every translate from p to q reports a collision exactly
\* when some flagged obstacle is within the combined radius of the segment
C10_CollisionIffNear ==
    \A i \in 1..Len(last_update.moves) :
        LET move == last_update.moves[i]
        IN  move.collision.collision <=> SomeObstacleNear(move.from, move.to)

\* C10 amended: the same for every translate whose path is at least 0.01
\* long; a shorter path is no movement and reports no collision; the move
\* (0,0)->(0,2) collides with an obstacle at (0,1), not with one at (0.5,1)
C10_CollisionIffNearWhenMoving ==
    \A i \in 1..Len(last_update.moves) :
        LET move == last_update.moves[i]
        IN  /\ PathLengthSquared(move) >= Square(MIN_PATH_LENGTH)
                => (move.collision.collision <=> SomeObstacleNear(move.from, move.to))
            /\ PathLengthSquared(move) < Square(MIN_PATH_LENGTH)
                => ~move.collision.collision
            /\ (task \in {SegmentOn, SegmentOff}
                  /\ move.from = <<0, 0>> /\ move.to = <<0, 2000>>)
                => (move.collision.collision <=> task = SegmentOn)

\* a translate that collided and, in another scene, the same translate
\* passing an obstacle 0.5 off its path
C10_Witness ==
    /\ last_update.called
    /\ \E i \in 1..Len(last_update.moves) :
         /\ last_update.moves[i].from = <<0, 0>>
         /\ last_update.moves[i].to = <<0, 2000>>
         /\ task \in {SegmentOn, SegmentOff}

-----------------------------------------------------------------------------
(* Claims about the episode loop *)

\* the last pass through the loop body got a decision back from the robot
TurnDone == last_turn.kind \in {"collision", "clarify", "action"}

\* that decision was a clarify intent
ClarifyDecision == Get(last_turn.intent, "action", "None") = "clarify"

\* a step of the running episode makes no robot decision call, no simulated
\* user call and no world update
NoFurtherCalls ==
    /\ calls'.decision = calls.decision
    /\ calls'.user = calls.user
    /\ calls'.update = calls.update

\* C1: one simulate_interaction call invokes the robot decision agent at
\* most max_turns times, clarification turns included
C1_DecisionBudget == calls.decision <= max_turns

\* max_turns clarification turns, each answered, used up the whole budget
C1_Witness ==
    /\ calls.decision = max_turns
    /\ calls.user = max_turns
    /\ calls.evaluate = 0
    /\ last_turn.kind = "clarify"
    /\ turn_num = max_turns + 1

\* C2: a collision returned by update_from_action is recorded in
\* interaction_log.collision and ends the episode in that turn: the user is
\* not asked, and until the next episode begins no decision call, user call
\* or world update follows
C2_CollisionEndsEpisode ==
    /\ [](last_update.collision.collision
            => /\ interaction_log.collision = last_update.collision
               /\ collision_occurred
               /\ last_turn.kind = "collision"
               /\ ~last_turn.asked
               /\ conversation_history = last_turn.history_before
               /\ pc \in {"final", "batch", "done"})
    /\ [][(collision_occurred /\ pc # "batch") => NoFurtherCalls]_vars

\* a collision in the first turn, five turns of the budget left, and the
\* episode closed
C2_Witness ==
    /\ last_update.collision.collision
    /\ last_turn.turn = 1
    /\ "completed" \in interaction_log.keys
    /\ calls.decision = 1

\* C6: after a turn whose decision is not clarify and causes no collision
\* the goal check has run; on success the episode ends with completed = true
\* and the user is not asked; else at turn max_turns the episode ends and the
\* user is not asked; otherwise the user is asked with task_complete = false
\* and a reply moves the turn counter on by one; once the episode has ended
\* no decision or user call follows
C6_ActionTurn ==
    /\ []((TurnDone /\ ~ClarifyDecision /\ ~last_turn.collided)
            => /\ last_turn.evaluated
               /\ last_turn.success
                    => /\ task_complete /\ ~last_turn.asked
                       /\ turn_num = last_turn.turn
                       /\ "completed" \in interaction_log.keys
                            => interaction_log.completed
               /\ (~last_turn.success /\ last_turn.turn >= max_turns)
                    => task_complete /\ ~last_turn.asked /\ turn_num = last_turn.turn
               /\ (~last_turn.success /\ last_turn.turn < max_turns)
                    => /\ last_turn.asked /\ ~last_turn.asked_complete
                       /\ (~last_turn.response.null /\ ~last_turn.response.raised)
                            => /\ turn_num = last_turn.turn + 1
                               /\ user_command = last_turn.response.reply
                       /\ (last_turn.response.null \/ last_turn.response.raised)
                            => turn_num = last_turn.turn)
    /\ [][(task_complete /\ pc # "batch") => NoFurtherCalls]_vars

\* an action turn at the last turn of the budget that did not succeed, and
\* an earlier one after which the user was asked
C6_Witness ==
    /\ TurnDone /\ ~ClarifyDecision /\ ~last_turn.collided
    /\ ~last_turn.success
    /\ last_turn.turn = max_turns
    /\ calls.user = max_turns - 1
    /\ calls.evaluate = max_turns

\* C7: on a turn whose decision is clarify the goal check does not run and
\* the user is asked; a null response ends the episode, a non-null one is
\* the next command and the turn counter grows by one
C7_ClarifyTurn ==
    (TurnDone /\ ClarifyDecision)
      => /\ ~last_turn.evaluated
         /\ last_turn.asked
         /\ last_turn.response.null => task_complete
         /\ (~last_turn.response.null /\ ~last_turn.response.raised)
              => /\ turn_num = last_turn.turn + 1
                 /\ user_command = last_turn.response.reply

-----------------------------------------------------------------------------
(* Claims about the evaluator and the simulated user *)

\* C3: with a collision in interaction_log, evaluate_task_success returns
\* success = false and success_rate = 0.0 at every pose and for every goal
C3_CollisionVeto ==
    ("success_evaluation" \in interaction_log.keys /\ interaction_log.collision.collision)
      => /\ ~interaction_log.success_evaluation.success
         /\ interaction_log.success_evaluation.success_rate = <<0, 1>>

\* an evaluation with a collision logged in a state where every condition
\* of the goal is met, the robot standing on the target
C3_Witness ==
    /\ "success_evaluation" \in interaction_log.keys
    /\ interaction_log.collision.collision
    /\ task = Traj001 /\ robot_position = <<0, 3000>>
    /\ evaluate_task_success(task.objects, robot_position, robot_orientation,
                             action_history, task.task_goal, interaction_log.turns,
                             NoCollision).success

\* respond_to_robot has been called
Responded == last_turn.kind = "respond"

\* the call returned None exactly when task_complete was passed as true or
\* check_goal_progress had nothing remaining, and then made no chat
\* completion call and left conversation_history as it was
NullExactlyWhenComplete ==
    /\ last_turn.response.null
         <=> \/ last_turn.asked_complete
             \/ check_goal_progress(task.task_goal, actions_observed) = {}
    /\ last_turn.response.null
         => /\ ~last_turn.response.llm_called
            /\ conversation_history = last_turn.history_before

\* conversation_history grew by the robot message and the reply returned
RepliedAndLogged ==
    /\ ~last_turn.response.raised
    /\ conversation_history =
         last_turn.history_before
           \o <<Message("assistant", last_turn.robot_message),
                Message("user", last_turn.response.reply)>>

\* C5 as stated: None exactly when complete, without a chat completion call
\* or a change of conversation_history; in every other case a reply is
\* returned and the robot message and the reply are appended
C5_NullOrReply ==
    Responded
      => /\ NullExactlyWhenComplete
         /\ ~last_turn.response.null => RepliedAndLogged

\* C5 amended: in every other case the chat completion call is made; when
\* it returns, the reply is returned and the robot message and the reply
\* are appended; when it raises, nothing is returned and only the robot
\* message has been appended
C5_NullOrReplyUnlessRaised ==
    Responded
      => /\ NullExactlyWhenComplete
         /\ ~last_turn.response.null
              => /\ last_turn.response.llm_called
                 /\ ~last_turn.response.raised => RepliedAndLogged
                 /\ last_turn.response.raised
                      => conversation_history =
                           Append(last_turn.history_before,
                                  Message("assistant", last_turn.robot_message))

\* a call that returned None because nothing of the goal remained though
\* task_complete was false, with a conversation already begun
C5_Witness ==
    /\ Responded
    /\ last_turn.response.null
    /\ ~last_turn.asked_complete
    /\ last_turn.history_before # <<>>

-----------------------------------------------------------------------------
(* Claims about collisions and motion *)

\* the squared distance between two points
Dist2(p, q) == Square(p[1] - q[1]) + Square(p[2] - q[2])

\* the scene object a collision result names
Collided(obj, collision) ==
    obj.name = collision.obstacle_name /\ obj.position = collision.obstacle_position

\* C11: after a translate that collided, the point the robot is put on is
\* at least ROBOT_RADIUS + obstacle radius away from the centre of the
\* obstacle it collided with, wherever the obstacle lies relative to the path
C11_StopsClearOfObstacle ==
    \A i \in 1..Len(last_update.moves) :
        last_update.moves[i].collision.collision =>
            \A j \in 1..Len(task.objects) :
                Collided(task.objects[j], last_update.moves[i].collision) =>
                    Dist2(last_update.moves[i].collision.collision_point,
                          task.objects[j].position)
                      >= Square(ROBOT_RADIUS
                                + Get(task.objects[j].properties, "radius", OBSTACLE_RADIUS))

\* the point lies on the axis-parallel segment from p to q
OnSegment(point, p, q) ==
    /\ point[1] \in Min(p[1], q[1])..Max(p[1], q[1])
    /\ point[2] \in Min(p[2], q[2])..Max(p[2], q[2])

\* where the robot is after the i-th translate of the last update: where
\* the next translate starts, or where the robot is now
PositionAfter(i) ==
    IF i < Len(last_update.moves) THEN last_update.moves[i + 1].from ELSE robot_position

\* C12: a translate with no flagged obstacle within the combined radius of
\* its path reports no collision and moves the robot to the full candidate
\* end position, whatever unflagged objects and hazards lie on the path
C12_OnlyObstaclesBlock ==
    \A i \in 1..Len(last_update.moves) :
        ~SomeObstacleNear(last_update.moves[i].from, last_update.moves[i].to)
          => /\ ~last_update.moves[i].collision.collision
             /\ PositionAfter(i) = last_update.moves[i].to

\* a translate of positive length that passed over an unflagged object and
\* over a hazard
C12_Witness ==
    \E i \in 1..Len(last_update.moves) :
        /\ last_update.moves[i].from # last_update.moves[i].to
        /\ \E j \in 1..Len(task.objects) :
             /\ ~Get(task.objects[j].properties, "obstacle", FALSE)
             /\ OnSegment(task.objects[j].position,
                          last_update.moves[i].from, last_update.moves[i].to)
        /\ \E h \in 1..Len(task.hazards) :
             OnSegment(task.hazards[h].position,
                       last_update.moves[i].from, last_update.moves[i].to)
        /\ robot_position = last_update.moves[i].to

\* the scene has no flagged obstacle
NoObstacles == \A j \in 1..Len(task.objects) : ~Get(task.objects[j].properties, "obstacle", FALSE)

\* the last update applied the rendering of this list of sub-actions, given
\* without an announcement, to a robot facing 0 in a scene without obstacles
Ran(actions) ==
    /\ last_update.called
    /\ last_update.intent.keys = {"actions"}
    /\ last_update.intent.actions = actions
    /\ last_update.from_ori = 0
    /\ NoObstacles

\* every turn of the list is by a whole number of degrees, written without
\* a decimal point
WholeDegrees(actions) ==
    \A a \in 1..Len(actions) : actions[a].turn_degrees.fp = <<>>

\* C13: the sub-actions of a sequence given without announcement, its turns
\* by whole numbers of degrees, are pure
\* turns and pure translates, each run at the pose the ones before it left:
\* from ((x,y), 0) without obstacles "turned right 90, then moved forward 1"
\* ends at ((x+1,y), 90), "moved forward 1, then turned right 90" at
\* ((x,y+1), 90)
C13_SubActionsCompose ==
    /\ (last_update.called /\ last_update.intent.keys = {"actions"}
          /\ WholeDegrees(last_update.intent.actions))
         => LET ref == SequentialMotion(task.objects,
                           Locals(last_update.from_pos, last_update.from_ori,
                                  NoCollision, <<>>),
                           last_update.intent.actions)
            IN  /\ last_update.moves = ref.moves
                /\ robot_position = ref.pos
                /\ robot_orientation = ref.ori
    /\ Ran(<<TurnRightAct(PyInt(90)), Forward(PyInt(1))>>)
         => /\ robot_position = <<last_update.from_pos[1] + 1000, last_update.from_pos[2]>>
            /\ robot_orientation = 90
    /\ Ran(<<Forward(PyInt(1)), TurnRightAct(PyInt(90))>>)
         => /\ robot_position = <<last_update.from_pos[1], last_update.from_pos[2] + 1000>>
            /\ robot_orientation = 90

\* "turned right 90, then moved forward 1" was applied to a robot that had
\* moved away from the origin before
C13_Witness ==
    /\ Ran(<<TurnRightAct(PyInt(90)), Forward(PyInt(1))>>)
    /\ last_update.from_pos # <<0, 0>>

\* the number of degrees a decision asks for; the numerals used have no
\* fraction other than ".0"
TurnValue(num) == IF num.neg THEN 0 - num.ip ELSE num.ip

\* the orientation a list of structured sub-actions asks for, from o
RECURSIVE TurnedBy(_, _)
TurnedBy(o, actions) ==
    IF actions = <<>> THEN o
    ELSE TurnedBy(CASE Head(actions).action = "turn_right" ->
                         (o + TurnValue(Head(actions).turn_degrees)) % 360
                    [] Head(actions).action = "turn_left" ->
                         (o - TurnValue(Head(actions).turn_degrees)) % 360
                    [] OTHER -> o,
                  Tail(actions))

\* C14: robot_orientation stays in [0, 360); a decision to turn right by d
\* sets it to (o + d) mod 360, one to turn left by d to (o - d) mod 360,
\* alone or as a step of a sequence that runs to its end, and a turn alone
\* leaves robot_position as it was
C14_TurnsSetOrientation ==
    /\ robot_orientation \in 0..359
    /\ (last_update.called /\ Get(last_update.intent, "action", "None") = "turn_right")
         => /\ robot_orientation
                 = (last_update.from_ori + TurnValue(last_update.intent.turn_degrees)) % 360
            /\ robot_position = last_update.from_pos
    /\ (last_update.called /\ Get(last_update.intent, "action", "None") = "turn_left")
         => /\ robot_orientation
                 = (last_update.from_ori - TurnValue(last_update.intent.turn_degrees)) % 360
            /\ robot_position = last_update.from_pos
    /\ (last_update.called /\ last_update.intent.keys = {"actions"}
          /\ ~last_update.collision.collision)
         => robot_orientation = TurnedBy(last_update.from_ori, last_update.intent.actions)

\* the decisions that are rendered as speech or as an unrecognized action
SpeechOnly(intent) ==
    Get(intent, "action", "None")
      \in {"speak", "describe_vision", "find_object", "stop", "unknown"}

\* C15: an update_from_action call on the rendering of a speak,
\* describe_vision, find_object, stop or unknown decision leaves
\* robot_position and robot_orientation as they were and returns no
\* collision, whatever was spoken; action_history grows by that description
C15_SpeechLeavesPose ==
    [][(last_update'.called /\ SpeechOnly(last_update'.intent)
          /\ action_history' # action_history)
         => /\ robot_position' = robot_position
            /\ robot_orientation' = robot_orientation
            /\ ~last_update'.collision.collision
            /\ action_history' = Append(action_history, last_update'.description)]_vars

-----------------------------------------------------------------------------
(* Claims about what the robot sees *)

\* the object lies within 10.0 of the pose and at most 60 degrees off the
\* heading: tan(offset) = |across| / ahead <= tan 60 = sqrt 3; an object at
\* the robot's own position has bearing atan2(0, 0) = 0, north
InCone(obj, position, orientation) ==
    LET dx == obj.position[1] - position[1]
        dy == obj.position[2] - position[2]
        ahead == Ahead(dx, dy, orientation)
        across == Across(dx, dy, orientation)
    IN  /\ dx * dx + dy * dy <= MAX_DISTANCE * MAX_DISTANCE
        /\ IF dx = 0 /\ dy = 0
             THEN orientation <= 60 \/ 360 - orientation <= 60
             ELSE ahead > 0 /\ across * across <= 3 * ahead * ahead

\* the world t with its i-th object at position p
Displaced(t, i, p) == [t EXCEPT !.objects[i].position = p]

\* places an object may stand at, in mm
Places == {<<0, 3000>>, <<0, 4000>>, <<0, -2500>>, <<-3000, 0>>, <<2000, 2000>>}

\* C17: the input a turn hands to the robot decision agent does not depend
\* on where an object outside the robot's cone stands: moving such an object
\* to another place outside the cone leaves the input as it is
C17_InputRevealsOnlyCone ==
    \A i \in 1..Len(task.objects), p \in Places :
        (/\ ~visible[i]
         /\ ~InCone([position |-> p], robot_position, robot_orientation))
          => robot_input(Displaced(task, i, p), robot_position, robot_orientation,
                         user_command)
               = robot_input(task, robot_position, robot_orientation, user_command)

-----------------------------------------------------------------------------
(* Claims about the independence of episodes *)

\* the user's conversation history once the initial command is generated
\* from an empty history
FreshConversations ==
    {generate_initial_command(<<>>, llm).history : llm \in InitialCompletions}

\* C18: an episode starts with nothing left from earlier episodes: the world
\* model holds the scenario's initial pose and an empty action history, the
\* user's observation history is empty and its conversation history holds
\* the new initial command at most, and the robot decision agent's
\* conversation history is empty
C18_EpisodesShareNoState ==
    [][(pc = "batch" /\ pc' # "batch" /\ pc' # "done")
         => /\ robot_position' = task'.position
            /\ robot_orientation' = task'.orientation
            /\ action_history' = <<>>
            /\ actions_observed' = <<>>
            /\ conversation_history' \in FreshConversations
            /\ robot_history' = <<>>]_vars

-----------------------------------------------------------------------------
(* Claims about the evaluation of a task *)

\* the evaluation recorded by the call of evaluate_task_success
Recorded == "success_evaluation" \in interaction_log.keys

\* the goal's parsed conditions that hold in the current state
ConditionsMet ==
    LET conditions == _parse_goal_conditions(task.task_goal)
    IN  {c \in 1..Len(conditions) :
           _check_condition(conditions[c], task.objects, robot_position,
                            robot_orientation, action_history, interaction_log.turns)}

\* C19: without a collision evaluate_task_success reports success exactly
\* when every parsed condition is met, and success_rate is the number of
\* conditions met over their total; one condition met of two is no success
\* at rate 1/2
C19_SuccessIsConjunction ==
    (Recorded /\ ~interaction_log.collision.collision)
      => LET ev == interaction_log.success_evaluation
             total == Len(_parse_goal_conditions(task.task_goal))
             met == Cardinality(ConditionsMet)
         IN  /\ ev.success <=> (ConditionsMet = 1..total)
             /\ ev.goal_conditions_met = met
             /\ ev.total_goal_conditions = total
             /\ total > 0 => ev.success_rate[1] * total = met * ev.success_rate[2]
             /\ (total = 2 /\ met = 1) => (~ev.success /\ ev.success_rate = <<1, 2>>)

\* a goal of two conditions evaluated with exactly one of them met
C19_Witness ==
    /\ Recorded
    /\ ~interaction_log.collision.collision
    /\ Len(_parse_goal_conditions(task.task_goal)) = 2
    /\ Cardinality(ConditionsMet) = 1
    /\ ~interaction_log.success_evaluation.success

\* the goal names a navigation and a find
NamesNavigateAndFind(goal_lower) ==
    /\ Contains(goal_lower, P(<<"find">>))
    /\ \/ Contains(goal_lower, P(<<"navigate", "to">>))
       \/ Contains(goal_lower, P(<<"go", "to">>))

\* C20: a goal that names a navigation and a find is parsed into two
\* conditions, a navigate_to_object and a find_object, and an evaluation
\* without a collision reports success only if the robot has both reached
\* the navigation target and found the object
C20_NavigateAndFind ==
    NamesNavigateAndFind(Lower(task.task_goal))
      => LET conditions == _parse_goal_conditions(task.task_goal)
             target == _extract_target_from_goal(Lower(task.task_goal))
             found == FindTarget(Lower(task.task_goal))
         IN  /\ Len(conditions) = 2
             /\ \E i, j \in 1..Len(conditions) :
                   /\ conditions[i].type = "navigate_to_object"
                   /\ conditions[j].type = "find_object"
             /\ (/\ Recorded
                 /\ ~interaction_log.collision.collision
                 /\ interaction_log.success_evaluation.success)
                  => /\ _check_navigation_to_object(NavigateCondition(target, 800),
                                                    task.objects, robot_position)
                     /\ _check_find_object(Condition("find_object", found, 0, "", 0, 0, <<>>),
                                           action_history)

\* C21: when no condition is parsed from the goal, an evaluation without a
\* collision reports success with 0 conditions met of 0, whatever the pose
\* and the action history
C21_NoConditionSucceeds ==
    (/\ Recorded
     /\ ~interaction_log.collision.collision
     /\ _parse_goal_conditions(task.task_goal) = <<>>)
      => /\ interaction_log.success_evaluation.success
         /\ interaction_log.success_evaluation.goal_conditions_met = 0
         /\ interaction_log.success_evaluation.total_goal_conditions = 0

\* a goal without conditions evaluated away from the scene's objects with
\* an empty action history
C21_Witness ==
    /\ Recorded
    /\ ~interaction_log.collision.collision
    /\ _parse_goal_conditions(task.task_goal) = <<>>
    /\ action_history = <<>>
    /\ robot_position = <<0, 0>>
    /\ interaction_log.success_evaluation.success

-----------------------------------------------------------------------------
(* Claims about the resolution of a goal's target *)

\* the scene objects whose name is the target
NamedLike(objects, target) ==
    {i \in 1..Len(objects) : WordsOf(Lower(objects[i].name)) = target}

\* the target carries no directional and no positional qualifier
Unqualified(target) ==
    /\ DirectionOf(target) = 0
    /\ \A q \in 1..Len(position_qualifiers) :
          ~Contains(Words(target), position_qualifiers[q])

\* C22: a navigation target that names several scene objects alike and
\* carries no qualifier to tell them apart fails the navigate_to_object
\* condition, wherever the robot stands
C22_AmbiguousTargetFails ==
    \A c \in 1..Len(_parse_goal_conditions(task.task_goal)) :
        LET condition == _parse_goal_conditions(task.task_goal)[c]
        IN  (/\ condition.type = "navigate_to_object"
             /\ Unqualified(condition.target)
             /\ Cardinality(NamedLike(task.objects, condition.target)) > 1)
              => ~_check_navigation_to_object(condition, task.objects, robot_position)

\* C23: the target of a goal is the first of: a named target the goal
\* contains, a directional phrase, a positional phrase, a generic noun.
\* ref_001's goal gives "red cup", ref_002's "center bottle", and the target
\* of implicit_002's "the plant behind you" is the plant with id back
C23_TargetQualifierOrder ==
    LET g == Lower(task.task_goal)
        target == _extract_target_from_goal(g)
        named == FirstContained(g, specific_targets)
        directional == FirstUsable(directional_patterns(g))
        positional == FirstUsable(<<AdjNoun(g)>> \o positional_patterns(g))
        generic == FirstContained(g, generic_objects)
    IN  /\ named # <<>> => target = named
        /\ (named = <<>> /\ directional # <<>>) => target = directional
        /\ (named = <<>> /\ directional = <<>> /\ positional # <<>>) => target = positional
        /\ (named = <<>> /\ directional = <<>> /\ positional = <<>>) => target = generic
        /\ task.task_id = "ref_001" => target = <<"red", "cup">>
        /\ task.task_id = "ref_002" => target = <<"center", "bottle">>
        /\ task.task_id = "implicit_002"
             => /\ target = <<"back", "plant">>
                /\ task.objects[ResolveTarget(task.objects, target)].position = <<0, -2500>>

\* the goal of implicit_002 evaluated with the robot at the front plant:
\* the back plant is the target, so the navigation has not succeeded
C23_Witness ==
    /\ Recorded
    /\ task.task_id = "implicit_002"
    /\ robot_position = <<0, 2000>>
    /\ ~interaction_log.collision.collision
    /\ ~interaction_log.success_evaluation.success

-----------------------------------------------------------------------------
(* Claims about perceptual conditions *)

\* the action history names an observation action
ObservationLogged(history) ==
    \E a \in 1..Len(history) :
        \/ ContainsAny(Lower(history[a]), perceptual_action_keywords)
        \/ Has360Scan(Lower(history[a]))

\* the content a spoken sentence must carry for the kind of goal: a digit or
\* a number word for a count, a yes/no/status word for a check, more than
\* five characters for a report or a description
RelevantSpeech(goal_text, speech) ==
    /\ speech # <<>>
    /\ \/ /\ Contains(goal_text, P(<<"count">>))
          /\ HasDigit(speech) \/ ContainsAny(speech, number_words)
       \/ /\ Contains(goal_text, P(<<"check">>))
          /\ ContainsAny(speech, check_subjects(goal_text))
       \/ /\ Contains(goal_text, P(<<"report">>)) \/ Contains(goal_text, P(<<"describe">>))
          /\ CharLen(speech) > 5

\* C24: a perceptual_task condition is met exactly when the action history
\* names an observation action or a logged turn shows the robot saying
\* something relevant to the goal; for a report or a describe goal any
\* sentence of more than five characters is relevant
C24_PerceptualMetIffObserved ==
    Recorded =>
      \A c \in 1..Len(_parse_goal_conditions(task.task_goal)) :
          LET condition == _parse_goal_conditions(task.task_goal)[c]
          IN  condition.type = "perceptual_task"
                => (c \in ConditionsMet
                      <=> \/ ObservationLogged(action_history)
                          \/ \E t \in 1..Len(interaction_log.turns) :
                                /\ Contains(interaction_log.turns[t], P(<<"Misty", "said:">>))
                                /\ RelevantSpeech(condition.goal_text,
                                                  Lower(SpeechOf(interaction_log.turns[t]))))

-----------------------------------------------------------------------------
(* Claims about the audio callbacks *)

\* the callbacks that have set processing_audio and not yet cleared it
InFlight == {t \in Handlers : handler[t].locked}

\* thread t's callback returns without having taken the flag
Drops(t) == ~handler[t].locked /\ ~At(t, "idle") /\ handler'[t] = NotRunning

\* C25: however the voice-record and microphone callbacks interleave, at
\* most one of them is between setting and clearing processing_audio, and
\* a callback that returns without having set the flag leaves the flag as
\* it is and leaves nothing behind to be processed later
C25_SingleFlight ==
    [][/\ Cardinality(InFlight') <= 1
       /\ \A t \in Handlers :
             Drops(t) => processing_audio' = processing_audio]_vars

\* thread t's callback, which had set the flag, returns
Finishes(t) == handler[t].locked /\ handler'[t] = NotRunning

-----------------------------------------------------------------------------
(* Claims about the interaction log *)

IsPrefix(s, t) == Len(s) <= Len(t) /\ SubSeq(t, 1, Len(s)) = s

\* the step is a pass of the loop whose decision call returned an intent
DecisionReturned ==
    /\ pc = "loop"
    /\ calls'.decision = calls.decision + 1
    /\ last_turn'.kind # "error"

\* C26: a decision call that returns an intent appends exactly one turn,
\* carrying the description of that intent, to interaction_log.turns; the
\* turn's number is its place in the list, counted from 1; during the
\* episode no turn is removed or rewritten; total_turns is the number of
\* turns, and there are never more than max_turns of them
C26_TurnsAppendOnly ==
    /\ [](/\ Len(interaction_log.turns) <= max_turns
          /\ "total_turns" \in interaction_log.keys
                => interaction_log.total_turns = Len(interaction_log.turns))
    /\ [][/\ pc \in {"loop", "final"}
                => IsPrefix(interaction_log.turns, interaction_log'.turns)
          /\ DecisionReturned
                => /\ interaction_log'.turns
                        = Append(interaction_log.turns, parse_action(last_turn'.intent))
                   /\ last_turn'.turn = Len(interaction_log'.turns)]_vars

\* an episode that used its whole budget: max_turns turns logged and counted
C26_Witness ==
    /\ "total_turns" \in interaction_log.keys
    /\ interaction_log.total_turns = max_turns
    /\ Len(interaction_log.turns) = max_turns
    /\ last_turn.turn = max_turns

-----------------------------------------------------------------------------
(* Claims about what changes the world *)

\* the step leaves the pose update_from_action computes for the action of
\* the pass when the step calls it, and the pose it found otherwise
PoseFollowsUpdate ==
    IF calls'.update = calls.update
    THEN /\ robot_position' = robot_position
         /\ robot_orientation' = robot_orientation
    ELSE LET result == update_from_action(task.objects, robot_position,
                                          robot_orientation,
                                          parse_action(last_turn'.intent))
         IN  /\ robot_position' = result.pos
             /\ robot_orientation' = result.ori

\* C27: during an episode the robot's pose changes only by
\* update_from_action: a pass of the loop leaves the pose update_from_action
\* computed for the pass's action, whatever descriptions were generated,
\* goal checks made and user methods called in the pass; a step without a
\* world update leaves the pose as it is; the scene's objects and hazards
\* stay where they are
C27_OnlyUpdateMovesRobot ==
    [][(pc = "loop" \/ pc = "final")
         => /\ task'.objects = task.objects
            /\ task'.hazards = task.hazards
            /\ PoseFollowsUpdate]_vars

\* a pass that moved the robot, let the user observe it and checked the goal
C27_Witness ==
    /\ pc = "loop"
    /\ last_turn.kind = "action"
    /\ last_turn.evaluated
    /\ actions_observed # <<>>
    /\ last_update.called
    /\ robot_position # last_update.from_pos

-----------------------------------------------------------------------------
(* Claims about move_distance conditions *)

\* how far the robot is from where the scene put it, along the heading it
\* started with for "forward" and against it for "backward"
Translated(direction) ==
    LET ahead == Ahead(robot_position[1] - task.position[1],
                       robot_position[2] - task.position[2], task.orientation)
    IN  IF direction = "forward" THEN ahead ELSE -ahead

\* C28: a move_distance condition is met only if the robot has moved in
\* the direction the goal names, by a distance that differs from
\* target_distance by no more than the tolerance; a question or a sentence
\* that mentions the direction moves nothing and does not meet it
C28_MoveDistanceNeedsMovement ==
    Recorded =>
      \A c \in 1..Len(_parse_goal_conditions(task.task_goal)) :
          LET condition == _parse_goal_conditions(task.task_goal)[c]
          IN  (condition.type = "move_distance" /\ c \in ConditionsMet)
                => /\ Translated(condition.direction) > 0
                   /\ Translated(condition.direction)
                        >= condition.target_distance - condition.tolerance
                   /\ Translated(condition.direction)
                        <= condition.target_distance + condition.tolerance

-----------------------------------------------------------------------------
(* Claims about the end of an episode *)

\* every action of the episode so far is a clarifying question
OnlyAsked ==
    \A a \in 1..Len(action_history) :
        Len(action_history[a]) >= 2
          /\ SubSeq(action_history[a], 1, 2) = Words(<<"Misty", "asked:">>)

\* C29: respond_to_robot called with task_complete false does not return
\* None while the robot has done nothing but ask: the answer to a
\* clarifying question of the first turn is a reply, whatever the goal
C29_NoPrematureEnd ==
    (/\ pc = "loop"
     /\ last_turn.asked /\ ~last_turn.asked_complete
     /\ ~last_turn.response.raised
     /\ OnlyAsked)
      => ~last_turn.response.null

\* C30: the log of an episode that ended without an error has completed
\* true, whether the episode ended by the goal check's success, by the
\* turn budget running out on an action or on a clarify turn, by the user
\* returning None or by a collision
C30_EndedIsCompleted ==
    \A e \in 1..Len(episodes) :
        "error" \notin episodes[e].keys
          => "completed" \in episodes[e].keys /\ episodes[e].completed

-----------------------------------------------------------------------------
(* Claims about the rendering of a decision *)

\* the decision asks for a motion
IsMotionIntent(intent) ==
    \/ "actions" \in intent.keys
    \/ Get(intent, "action", "None")
          \in {"forward", "backward", "turn_left", "turn_right", "spatial_navigate"}

\* the sub-actions a decision's structured fields ask for: the 'actions'
\* list itself, one sub-action for a single motion, and for spatial_navigate
\* the signed turn followed by the translate
IntentActions(intent) ==
    IF "actions" \in intent.keys THEN intent.actions
    ELSE CASE intent.action = "forward" -> <<Forward(intent.distance)>>
           [] intent.action = "backward" -> <<Backward(intent.distance)>>
           [] intent.action = "turn_left" -> <<TurnLeftAct(intent.turn_degrees)>>
           [] intent.action = "turn_right" -> <<TurnRightAct(intent.turn_degrees)>>
           [] intent.action = "spatial_navigate" ->
                <<(IF intent.turn_degrees.neg
                   THEN TurnLeftAct(intent.turn_degrees)
                   ELSE TurnRightAct(intent.turn_degrees)),
                  Forward(intent.distance)>>
           [] OTHER -> <<>>

\* C31: when nothing is hit, the pose after update_from_action has read the
\* text parse_action renders for a motion decision is the pose the
\* decision's own fields give: the distance and the degrees of a single
\* motion, the signed turn and the distance of a spatial_navigate, the
\* sub-actions of a sequence in their order
C31_RenderingPreservesMotion ==
    (/\ last_update.called
     /\ IsMotionIntent(last_update.intent)
     /\ ~last_update.collision.collision)
      => LET ref == SequentialMotion(task.objects,
                        Locals(last_update.from_pos, last_update.from_ori,
                               NoCollision, <<>>),
                        IntentActions(last_update.intent))
         IN  ~ref.col.collision
               => /\ robot_position = ref.pos
                  /\ robot_orientation = ref.ori

-----------------------------------------------------------------------------
(* Claims about the stop point of a collision *)

\* C32: when a translate reports a collision, the position the robot is
\* left at lies on the attempted segment, between the start position and
\* the candidate end position: never behind the start, never beyond the end
C32_StopPointOnSegment ==
    \A i \in 1..Len(last_update.moves) :
        last_update.moves[i].collision.collision
          => /\ PositionAfter(i) = last_update.moves[i].collision.collision_point
             /\ OnSegment(PositionAfter(i), last_update.moves[i].from,
                          last_update.moves[i].to)

\* what _check_collision_on_path returns for the translate from p to q when
\* the j-th object is the only object of the scene
Alone(j, p, q) == _check_collision_on_path(<<task.objects[j]>>, p, q)

\* how far along the axis-parallel path from p the robot is when it first
\* comes within the combined radius of the object
TouchAt(obj, p, q) ==
    LET length == Max(q[1] - p[1], p[1] - q[1]) + Max(q[2] - p[2], p[2] - q[2])
        along == ((obj.position[1] - p[1]) * (q[1] - p[1])
                  + (obj.position[2] - p[2]) * (q[2] - p[2])) \div length
        aside2 == Dist2(obj.position, p) - Square(along)
        reach == ROBOT_RADIUS + Get(obj.properties, "radius", OBSTACLE_RADIUS)
    IN  Max(0, along - Sqrt(Max(0, Square(reach) - aside2)))

\* the j-th object is an obstacle the translate from p to q collides with,
\* and no other such obstacle is touched earlier along the path
TouchedFirst(j, p, q) ==
    /\ Alone(j, p, q).collision
    /\ \A k \in 1..Len(task.objects) :
          Alone(k, p, q).collision
            => TouchAt(task.objects[j], p, q) <= TouchAt(task.objects[k], p, q)

\* C34: when a translate collides, the collision reported and the stop
\* position are those of the obstacle touched first along the path,
\* whatever the order of the objects in the scene
C34_FirstTouchedReported ==
    \A i \in 1..Len(last_update.moves) :
        last_update.moves[i].collision.collision
          => \E j \in 1..Len(task.objects) :
                /\ TouchedFirst(j, last_update.moves[i].from, last_update.moves[i].to)
                /\ last_update.moves[i].collision
                      = Alone(j, last_update.moves[i].from, last_update.moves[i].to)
                /\ PositionAfter(i)
                      = Alone(j, last_update.moves[i].from,
                              last_update.moves[i].to).collision_point

-----------------------------------------------------------------------------
(* Claims about the execution of an intent *)

\* a single intent, without a list of actions to run, whose action is
\* 'clarify'
IsSingleClarify(intent) ==
    ~IsSequence(intent) /\ Get(intent, "action", "unknown") = "clarify"

\* C35: execute on a single intent with action 'clarify' speaks the
\* intent's text exactly once and makes no other call on the robot, so no
\* drive command, whatever the friction_type
C35_ClarifyOnlySpeaks ==
    \A n \in 1..Len(executions) :
        IsSingleClarify(executions[n].intent)
          => /\ executions[n].calls
                  = <<SpeakCall(Get(executions[n].intent, "text", <<>>))>>
             /\ ~executions[n].raised

\* a question asked under a friction type that lets other actions go on
\* after the announcement, and one asked with no friction type
C35_Witness ==
    /\ Len(executions) = 2
    /\ executions[1].intent = WithFriction(ClarifyWhich, "assumption_reveal")
    /\ executions[1].calls = <<SpeakCall(QuestionWhich)>>
    /\ executions[2].intent = ClarifyPlan
    /\ executions[2].calls = <<SpeakCall(QuestionPlan)>>

-----------------------------------------------------------------------------
(* Claims about the hazards of the vision text *)

\* the hazard has a line "... detected at ...m ahead" in the vision text
\* written at the robot's pose
ListedAhead(hazard) ==
    \E i \in 1..Len(get_robot_pov_description(task.objects, task.hazards, robot_position,
                                               robot_orientation).hazards) :
        get_robot_pov_description(task.objects, task.hazards, robot_position,
                                  robot_orientation).hazards[i].description
          = hazard.description

\* the hazard lies in front of the robot: its offset has a positive
\* component along the robot's heading
InFrontOfRobot(hazard) ==
    Ahead(hazard.position[1] - robot_position[1], hazard.position[2] - robot_position[2],
          robot_orientation) > 0

\* C36: a hazard is reported as detected ahead only if it lies in front of
\* the robot at its current orientation; after the robot has turned away
\* from it, it is not listed
C36_AheadIsInFront ==
    \A h \in 1..Len(task.hazards) :
        ListedAhead(task.hazards[h]) => InFrontOfRobot(task.hazards[h])

====
